---- MODULE Spec2Model ----
(***************************************************************************)
(* Model of BalanceProcessor (balance_processing_grok_20250915_1.py): the  *)
(* two-pass driver process_file, the temporary-identifier registry         *)
(* get_or_generate_id, the renumber-directive parser parse_renum_action    *)
(* and the attribute parser parse_attributes.                              *)
(*                                                                         *)
(* Text.  A cell of the spreadsheet is the sequence of its characters, an  *)
(* atom each.  A Latin letter, a digit or a sign is the atom of that       *)
(* character ("I", "d", "1", " ", "=", "<").  A Russian letter is the atom *)
(* of its Latin transliteration followed by "_": "s_" is the letter s,     *)
(* "ya_" the letter ja, "soft_" the soft sign, and "S_" the capital s.     *)
(* The texts of the code and of the rows are written with the words of     *)
(* the table Words ("stati", " ", "s_", " ", "poryadkom") and spelled out  *)
(* by Ru; every operation on text works on characters.  The empty cell     *)
(* (NaN) is the cell NaN.                                                  *)
(***************************************************************************)
EXTENDS Integers, Sequences, FiniteSets, TLC

(***************************************************************************)
(* Optional values: None is <<>>, Some(v) is <<v>>.                        *)
(***************************************************************************)
None == <<>>
Some(v) == <<v>>

\* "v = e; F(v)": a value computed once and used in what follows
Bind(v, F(_)) == F(v)

\* pandas' missing cell: pd.isna(cell) is TRUE exactly for this cell
NaN == <<"<NaN>">>
isna(cell) == cell = NaN
notna(cell) == cell # NaN

(***************************************************************************)
(* str methods on atom sequences.                                          *)
(***************************************************************************)
DigitAtoms == <<"0", "1", "2", "3", "4", "5", "6", "7", "8", "9">>
IsDigitAtom(a) == \E d \in 1..10 : DigitAtoms[d] = a
DigitValue(a) == (CHOOSE d \in 1..10 : DigitAtoms[d] = a) - 1
\* the characters str.strip() removes and \s matches: space, tab, line feed,
\* vertical tab, form feed, carriage return and the separators FS, GS, RS, US
\* (the spaces beyond ASCII, U+0085, U+00A0, ..., are not in the alphabet)
SpaceAtoms == {" ", "\t", "\n", "", "\f", "\r", "", "", "", ""}
IsSpaceAtom(a) == a \in SpaceAtoms

\* str.lower() / str.upper(), atom by atom: the Latin and the Russian letters
LatinLower ==
    <<"a", "b", "c", "d", "e", "f", "g", "h", "i", "j", "k", "l", "m", "n", "o",
      "p", "q", "r", "s", "t", "u", "v", "w", "x", "y", "z">>
LatinUpper ==
    <<"A", "B", "C", "D", "E", "F", "G", "H", "I", "J", "K", "L", "M", "N", "O",
      "P", "Q", "R", "S", "T", "U", "V", "W", "X", "Y", "Z">>
CyrLower ==
    <<"a_", "b_", "v_", "g_", "d_", "e_", "yo_", "zh_", "z_", "i_", "j_", "k_",
      "l_", "m_", "n_", "o_", "p_", "r_", "s_", "t_", "u_", "f_", "h_", "c_",
      "ch_", "sh_", "sch_", "hard_", "y_", "soft_", "eh_", "yu_", "ya_">>
CyrUpper ==
    <<"A_", "B_", "V_", "G_", "D_", "E_", "Yo_", "Zh_", "Z_", "I_", "J_", "K_",
      "L_", "M_", "N_", "O_", "P_", "R_", "S_", "T_", "U_", "F_", "H_", "C_",
      "Ch_", "Sh_", "Sch_", "Hard_", "Y_", "Soft_", "Eh_", "Yu_", "Ya_">>
LowerLetters == LatinLower \o CyrLower
UpperLetters == LatinUpper \o CyrUpper
LowerTable ==
    [a \in {UpperLetters[k] : k \in DOMAIN UpperLetters} |->
        LowerLetters[CHOOSE k \in DOMAIN UpperLetters : UpperLetters[k] = a]]
UpperTable ==
    [a \in {LowerLetters[k] : k \in DOMAIN LowerLetters} |->
        UpperLetters[CHOOSE k \in DOMAIN LowerLetters : LowerLetters[k] = a]]
UpperSet == DOMAIN LowerTable
LowerSet == DOMAIN UpperTable
LowerAtom(a) == IF a \in UpperSet THEN LowerTable[a] ELSE a
UpperAtom(a) == IF a \in LowerSet THEN UpperTable[a] ELSE a
Lower(t) == [k \in 1..Len(t) |-> LowerAtom(t[k])]
Upper(t) == [k \in 1..Len(t) |-> UpperAtom(t[k])]

\* the spelling of the words: <<word, the word capitalised, the letters>>
Words ==
    {<<"stati", "Stati", <<"s_", "t_", "a_", "t_", "soft_", "i_">>>>,
     <<"poryadkom", "Poryadkom", <<"p_", "o_", "r_", "ya_", "d_", "k_", "o_", "m_">>>>,
     <<"vniz", "Vniz", <<"v_", "n_", "i_", "z_">>>>,
     <<"na", "Na", <<"n_", "a_">>>>,
     <<"smenila", "Smenila", <<"s_", "m_", "e_", "n_", "i_", "l_", "a_">>>>,
     <<"nazvanie", "Nazvanie", <<"n_", "a_", "z_", "v_", "a_", "n_", "i_", "e_">>>>,
     <<"dobavlenie", "Dobavlenie", <<"d_", "o_", "b_", "a_", "v_", "l_", "e_", "n_", "i_", "e_">>>>,
     <<"menyaet", "Menyaet", <<"m_", "e_", "n_", "ya_", "e_", "t_">>>>,
     <<"uroven", "Uroven", <<"u_", "r_", "o_", "v_", "e_", "n_", "soft_">>>>,
     <<"roditelya", "Roditelya", <<"r_", "o_", "d_", "i_", "t_", "e_", "l_", "ya_">>>>,
     <<"logicheski", "Logicheski", <<"l_", "o_", "g_", "i_", "ch_", "e_", "s_", "k_", "i_">>>>,
     <<"udalyaem", "Udalyaem", <<"u_", "d_", "a_", "l_", "ya_", "e_", "m_">>>>,
     <<"iz", "Iz", <<"i_", "z_">>>>,
     <<"dokumenta", "Dokumenta", <<"d_", "o_", "k_", "u_", "m_", "e_", "n_", "t_", "a_">>>>,
     <<"imya", "Imya", <<"i_", "m_", "ya_">>>>,
     <<"poziciyu", "Poziciyu", <<"p_", "o_", "z_", "i_", "c_", "i_", "yu_">>>>,
     <<"roditel", "Roditel", <<"r_", "o_", "d_", "i_", "t_", "e_", "l_", "soft_">>>>,
     <<"ostaetsya", "Ostaetsya", <<"o_", "s_", "t_", "a_", "e_", "t_", "s_", "ya_">>>>}
\* the characters an element of a written text stands for: the letters of a
\* word, the first of them a capital for a capitalised word, or the character
Spell(a) ==
    IF \E w \in Words : w[1] = a THEN (CHOOSE w \in Words : w[1] = a)[3]
    ELSE IF \E w \in Words : w[2] = a
         THEN Bind((CHOOSE w \in Words : w[2] = a)[3], LAMBDA l :
                <<UpperAtom(Head(l))>> \o Tail(l))
         ELSE <<a>>
\* a text written with words and characters, as the sequence of its characters
RECURSIVE Ru(_)
Ru(t) == IF t = <<>> THEN <<>> ELSE Spell(Head(t)) \o Ru(Tail(t))

\* str.strip()
RECURSIVE LStrip(_)
LStrip(t) == IF t # <<>> /\ IsSpaceAtom(Head(t)) THEN LStrip(Tail(t)) ELSE t
RECURSIVE RStrip(_)
RStrip(t) ==
    IF t # <<>> /\ IsSpaceAtom(t[Len(t)]) THEN RStrip(SubSeq(t, 1, Len(t) - 1)) ELSE t
Strip(t) == RStrip(LStrip(t))

\* str.isdigit(): non-empty and digits only
IsDigit(t) == t # <<>> /\ \A k \in 1..Len(t) : IsDigitAtom(t[k])

\* int(t) of an all-digit text
RECURSIVE ToInt(_)
ToInt(t) ==
    IF t = <<>> THEN 0 ELSE 10 * ToInt(SubSeq(t, 1, Len(t) - 1)) + DigitValue(t[Len(t)])

\* str(n) of a natural number
RECURSIVE IntToStr(_)
IntToStr(n) ==
    IF n < 10 THEN <<DigitAtoms[n + 1]>> ELSE IntToStr(n \div 10) \o <<DigitAtoms[(n % 10) + 1]>>

\* t.startswith(p)
StartsWith(t, p) == Len(t) >= Len(p) /\ SubSeq(t, 1, Len(p)) = p

\* p occurs in t at position k
MatchAt(t, p, k) ==
    /\ k >= 1
    /\ k + Len(p) - 1 <= Len(t)
    /\ \A j \in 1..Len(p) : t[k + j - 1] = p[j]
\* p in t
Contains(t, p) == \E k \in 1..(Len(t) + 1) : MatchAt(t, p, k)
\* t.find(p) at or after position from (0 when there is none)
RECURSIVE FindFrom(_, _, _)
FindFrom(t, p, from) ==
    IF from > Len(t) + 1 THEN 0
    ELSE IF MatchAt(t, p, from) THEN from ELSE FindFrom(t, p, from + 1)

\* t.split(sep): the pieces between the occurrences of sep, left to right
RECURSIVE Split(_, _)
Split(t, sep) ==
    LET k == FindFrom(t, sep, 1)
    IN  IF k = 0 THEN <<t>>
        ELSE <<SubSeq(t, 1, k - 1)>> \o Split(SubSeq(t, k + Len(sep), Len(t)), sep)

(***************************************************************************)
(* The regular expressions of parse_renum_action, as lists of elements:    *)
(* Lit(w) the words w, WsStar is \s*, WsPlus is \s+, Opt(w) is w?, and     *)
(* Digits is the group (\d+).  Every repetition of the three patterns is   *)
(* followed by an element that cannot start with what the repetition       *)
(* consumes, so greedy matching without backtracking is what re does.      *)
(***************************************************************************)
Lit(w) == [op |-> "lit", atoms |-> w]
Opt(w) == [op |-> "opt", atoms |-> w]
WsStar == [op |-> "ws*", atoms |-> <<>>]
WsPlus == [op |-> "ws+", atoms |-> <<>>]
Digits == [op |-> "digits", atoms |-> <<>>]

\* first position at or after k that holds no whitespace / no digit
RECURSIVE SkipSpace(_, _)
SkipSpace(t, k) == IF k <= Len(t) /\ IsSpaceAtom(t[k]) THEN SkipSpace(t, k + 1) ELSE k
RECURSIVE SkipDigits(_, _)
SkipDigits(t, k) == IF k <= Len(t) /\ IsDigitAtom(t[k]) THEN SkipDigits(t, k + 1) ELSE k

\* re.match(pat, t[k:]): Some(groups) or None
RECURSIVE RegexAt(_, _, _, _)
RegexAt(t, k, pat, groups) ==
    IF pat = <<>> THEN Some(groups)
    ELSE LET e == Head(pat)
             rest == Tail(pat)
         IN  CASE e.op = "lit" ->
                    IF MatchAt(t, e.atoms, k)
                    THEN RegexAt(t, k + Len(e.atoms), rest, groups) ELSE None
               [] e.op = "opt" ->
                    IF MatchAt(t, e.atoms, k)
                    THEN RegexAt(t, k + Len(e.atoms), rest, groups)
                    ELSE RegexAt(t, k, rest, groups)
               [] e.op = "ws*" -> RegexAt(t, SkipSpace(t, k), rest, groups)
               [] e.op = "ws+" ->
                    IF SkipSpace(t, k) > k
                    THEN RegexAt(t, SkipSpace(t, k), rest, groups) ELSE None
               [] e.op = "digits" ->
                    IF SkipDigits(t, k) > k
                    THEN RegexAt(t, SkipDigits(t, k), rest,
                                 Append(groups, SubSeq(t, k, SkipDigits(t, k) - 1)))
                    ELSE None

\* re.search(pat, t): the groups of the leftmost match, or None
\* the leftmost match at or after position k; a pattern that starts with
\* words can only match where the words are
RECURSIVE RegexFrom(_, _, _)
RegexFrom(pat, t, k) ==
    IF k > Len(t) + 1 THEN None
    ELSE Bind(IF pat # <<>> /\ pat[1].op = "lit" THEN FindFrom(t, pat[1].atoms, k) ELSE k,
              LAMBDA j :
                IF j = 0 THEN None
                ELSE Bind(RegexAt(t, j, pat, <<>>), LAMBDA match :
                        IF match # None THEN match ELSE RegexFrom(pat, t, j + 1)))
RegexSearch(pat, t) == RegexFrom(pat, t, 1)

\* the words "stati s poryadkom" and "vniz na" of the directive
RenumHead == Ru(<<"stati", " ", "s_", " ", "poryadkom">>)
RenumDown == Ru(<<"vniz", " ", "na">>)
\* patterns[0], patterns[1], patterns[2]
RenumPatterns ==
    << <<Lit(RenumHead), WsStar, Lit(<<">">>), WsStar, Digits, WsPlus,
         Lit(RenumDown), WsStar, Opt(<<"+">>), Digits>>,
       <<Lit(RenumHead), WsStar, Lit(<<">", "=">>), WsStar, Digits, WsPlus,
         Lit(RenumDown), WsStar, Opt(<<"+">>), Digits>>,
       <<Lit(RenumHead), WsStar, Lit(<<">", "=">>), WsStar, Digits, WsPlus,
         Lit(<<"i_">>), WsPlus, Lit(Ru(<<"poryadkom">>)), WsStar, Lit(<<"<", "=">>),
         WsStar, Digits, WsPlus, Lit(RenumDown), WsStar, Opt(<<"+">>), Digits>> >>

\* the upper bound given to a directive that names none
OpenEnd == 1000

\* the begin of "> N" taken as N, like the begin of ">= N"
RenumResult_BeginAsWritten(i, groups) ==
    IF Len(groups) = 3
    THEN <<ToInt(groups[1]), ToInt(groups[2]), ToInt(groups[3])>>
    ELSE <<ToInt(groups[1]), OpenEnd, ToInt(groups[2])>>

\* what one pattern gives once it has matched: (begin_ord, end_ord, shift_ord)
RenumResult(i, groups) ==
    IF Len(groups) = 3
    THEN <<ToInt(groups[1]), ToInt(groups[2]), ToInt(groups[3])>>
    ELSE <<IF i = 1 THEN ToInt(groups[1]) + 1 ELSE ToInt(groups[1]),
           OpenEnd, ToInt(groups[2])>>

\* the loop over the patterns, from pattern i on: first match wins
RECURSIVE RenumFrom(_, _)
RenumFrom(text, i) ==
    IF i > Len(RenumPatterns) THEN None
    ELSE Bind(RegexSearch(RenumPatterns[i], text), LAMBDA match :
            IF match # None THEN Some(RenumResult(i, match[1]))
            ELSE RenumFrom(text, i + 1))

\* parse_renum_action(id_text): Some(<<begin_ord, end_ord, shift_ord>>) or None
parse_renum_action(id_text) ==
    IF id_text = <<>> \/ isna(id_text) THEN None
    ELSE RenumFrom(Strip(Lower(id_text)), 1)

(***************************************************************************)
(* parse_attributes: the attribute cell is cut into lines at "\n" and at   *)
(* the markup <br\s*/?> in any case ("<br>", "<BR/>", "<Br />", ...).      *)
(***************************************************************************)
\* the separator <br\s*/?>|\n matched at position k of t: the position after
\* the match, 0 when there is none (re.IGNORECASE: "br" in any case)
BreakEnd(t, k) ==
    IF MatchAt(t, <<"\n">>, k) THEN k + 1
    ELSE IF /\ MatchAt(t, <<"<">>, k)
            /\ k + 2 <= Len(t)
            /\ LowerAtom(t[k + 1]) = "b"
            /\ LowerAtom(t[k + 2]) = "r"
         THEN Bind(SkipSpace(t, k + 3), LAMBDA j :
                Bind(IF MatchAt(t, <<"/">>, j) THEN j + 1 ELSE j, LAMBDA m :
                    IF MatchAt(t, <<">">>, m) THEN m + 1 ELSE 0))
         ELSE 0
IsLineBreak(t, k) == BreakEnd(t, k) # 0

\* the first position at or after k where the separator matches, 0 when none
RECURSIVE FirstBreak(_, _)
FirstBreak(t, k) ==
    IF k > Len(t) THEN 0 ELSE IF IsLineBreak(t, k) THEN k ELSE FirstBreak(t, k + 1)

\* re.split(r'<br\s*/?>|\n', t): the lines of t
RECURSIVE SplitLines(_)
SplitLines(t) ==
    Bind(FirstBreak(t, 1), LAMBDA k :
        IF k = 0 THEN <<t>>
        ELSE <<SubSeq(t, 1, k - 1)>> \o SplitLines(SubSeq(t, BreakEnd(t, k), Len(t))))

\* the body of the loop over the lines: a line holding "=" sets attrs[key]
AttrLine(attrs, line0) ==
    LET line == Strip(line0)
        k == FindFrom(line, <<"=">>, 1)
    IN  IF k = 0 THEN attrs
        ELSE (Lower(Strip(SubSeq(line, 1, k - 1))) :> Strip(SubSeq(line, k + 1, Len(line))))
             @@ attrs

RECURSIVE AttrLines(_, _)
AttrLines(attrs, lines) ==
    IF lines = <<>> THEN attrs ELSE AttrLines(AttrLine(attrs, Head(lines)), Tail(lines))

\* the empty dict
EmptyDict == [k \in {} |-> <<>>]

\* parse_attributes(attr_text): the dict key -> value
parse_attributes(attr_text) ==
    IF notna(attr_text) THEN AttrLines(EmptyDict, SplitLines(attr_text)) ELSE EmptyDict

\* the keys the code asks for
KeyName == <<"n", "a", "m", "e">>
KeyOrd == <<"o", "r", "d">>
KeyLvl == <<"l", "v", "l">>
KeyParent == <<"p", "a", "r", "e", "n", "t">>
\* k in attrs
HasKey(attrs, k) == k \in DOMAIN attrs


(***************************************************************************)
(* State.                                                                  *)
(*   input_files    the files main() hands to process_file, in order; a    *)
(*                  file is [rows, readable, db_up]: its data rows, whether*)
(*                  read_excel_file succeeds on it and whether connect_db  *)
(*                  succeeds when it is processed                          *)
(*   generate_file  the mode main() asked for (TRUE: write a script)       *)
(*   db_fail_plan   the calls of fn_get_new_obj_ids (counted from 1 over   *)
(*                  the life of the processor) that raise                  *)
(*   file_no        how many files process_file has been called on         *)
(*   pc             where main() is: "main" between two files, "pass1" and *)
(*                  "pass2" inside process_file, "execute" about to call   *)
(*                  execute_queries, "cursor" inside execute_queries with  *)
(*                  the connection made                                    *)
(*   df             the rows of the file being processed                   *)
(*   index          the row the running pass is at                         *)
(*   generated_ids  self.generated_ids                                     *)
(*   temp_id_counter, previous_begin, renum_sql, addition_sql, change_sql, *)
(*   comment_lines, sql_queries   the locals of process_file               *)
(*   queries        what the last call of process_file returned            *)
(*   conn           self.conn: "None" or "open"                            *)
(*   open_conns     connections opened and not closed                      *)
(*   committed      the statements execute_queries has committed to the    *)
(*                  database, in order                                     *)
(*   db_seq         the next value of the database's ID sequence           *)
(*   db_calls       calls of fn_get_new_obj_ids made so far                *)
(*   trace          history: one event per call of get_or_generate_id      *)
(*   prev_ids       history: the registries earlier files ended with       *)
(*   errors         history: the rows of the current file whose handling   *)
(*                  in pass 2 raised an exception (logging.error, 407)     *)
(***************************************************************************)
VARIABLES input_files, generate_file, db_fail_plan, file_no, pc, df, index,
          generated_ids, temp_id_counter, previous_begin, renum_sql, addition_sql,
          change_sql, comment_lines, sql_queries, queries, conn, open_conns,
          committed, db_seq, db_calls, trace, prev_ids, errors

vars == <<input_files, generate_file, db_fail_plan, file_no, pc, df, index,
          generated_ids, temp_id_counter, previous_begin, renum_sql, addition_sql,
          change_sql, comment_lines, sql_queries, queries, conn, open_conns,
          committed, db_seq, db_calls, trace, prev_ids, errors>>

(***************************************************************************)
(* get_or_generate_id.  The registry, the database sequence and the        *)
(* history travel in a record e = [ids, seq, calls, trace, ret]; ret is    *)
(* what the call returned: Some(id) or None.                               *)
(***************************************************************************)
\* the prefixes of a temporary token
PrefixID == <<"I", "D">>
PrefixTEMP == <<"T", "E", "M", "P">>
IsTempToken(t) == StartsWith(Upper(t), PrefixID) \/ StartsWith(Upper(t), PrefixTEMP)

\* the key of the registry for a token: str(temp_id).strip()
RegistryKey(temp_id) == Strip(temp_id)

\* "temp_id in self.generated_ids"
InRegistry(ids, key) == key \in DOMAIN ids

\* cursor.execute("SELECT balance_api.fn_get_new_obj_ids(1)") raises on this call
AllocationFails(call_no) == call_no \in db_fail_plan

\* get_or_generate_id without the test of line 87: digits are no token
get_or_generate_id_NoDigits(e, temp_id) ==
    IF temp_id = <<>> \/ isna(temp_id) THEN [e EXCEPT !.ret = None]
    ELSE Bind(RegistryKey(temp_id), LAMBDA key :
            IF IsTempToken(key)
            THEN IF InRegistry(e.ids, key) THEN [e EXCEPT !.ret = Some(e.ids[key])]
                 ELSE IF AllocationFails(e.calls + 1)
                 THEN [e EXCEPT !.calls = @ + 1, !.ret = None]
                 ELSE [e EXCEPT !.ids = (key :> e.seq) @@ @, !.seq = @ + 1,
                                !.calls = @ + 1, !.ret = Some(e.seq)]
            ELSE [e EXCEPT !.ret = None])

\* def get_or_generate_id(self, temp_id): e with ret, and with ids, seq and calls
\* as the call leaves them
get_or_generate_id(e, temp_id) ==
    IF temp_id = <<>> \/ isna(temp_id) THEN [e EXCEPT !.ret = None]
    ELSE Bind(RegistryKey(temp_id), LAMBDA key :
            IF IsDigit(key) THEN [e EXCEPT !.ret = Some(ToInt(key))]
            ELSE IF IsTempToken(key)
            THEN IF InRegistry(e.ids, key) THEN [e EXCEPT !.ret = Some(e.ids[key])]
                 ELSE IF AllocationFails(e.calls + 1)
                 THEN [e EXCEPT !.calls = @ + 1, !.ret = None]
                 ELSE [e EXCEPT !.ids = (key :> e.seq) @@ @, !.seq = @ + 1,
                                !.calls = @ + 1, !.ret = Some(e.seq)]
            ELSE [e EXCEPT !.ret = None])

\* history: the call get_or_generate_id(temp_id) made at row at.row of pass
\* at.pass, with what it returned and the registry and the count of allocation
\* calls before and after it
Event(e, r, at, temp_id) ==
    [file |-> file_no, pass |-> at.pass, row |-> at.row, tok |-> temp_id, ret |-> r.ret,
     ids_before |-> e.ids, ids_after |-> r.ids,
     calls_before |-> e.calls, calls_after |-> r.calls]

\* self.get_or_generate_id(temp_id) as the passes call it: the call, recorded
Resolve(e, temp_id, at) ==
    Bind(get_or_generate_id(e, temp_id), LAMBDA r :
        [r EXCEPT !.trace = Append(@, Event(e, r, at, temp_id))])

\* Python's truth of an Optional[int]: None and 0 are false
Truthy(opt) == opt # None /\ opt[1] # 0


(***************************************************************************)
(* Rows, statements and markers.                                           *)
(* A row is [date, id, action, attr]: the cells "data izmeneniya",         *)
(* "id stati", "deystvie" and "znachenie atributa".  date is a string:     *)
(* NaT (no date), a date, or text that is no date.                         *)
(* A statement is a record of the values its SQL text is built from; row,  *)
(* id_tok and parent_tok are history: the row that produced it and the     *)
(* tokens its IDs were resolved from.  A parent_id of None is NULL.        *)
(***************************************************************************)
NaT == "NaT"
isnaDate(d) == d = NaT
GoodDate == "2025-09-15"
BadDate == "not a date"
\* pd.to_datetime(change_date) raises for text that is no date
DateRaises(d) == d = BadDate
\* change_date.strftime('%d.%m.%Y')
FormatDate(d) == IF d = GoodDate THEN "15.09.2025" ELSE d

BlankStmt ==
    [cat |-> "", fn |-> "", article_id |-> 0, parent_id |-> None, name |-> <<>>,
     ord |-> <<>>, lvl |-> <<>>, begin_ord |-> 0, end_ord |-> 0, shift_ord |-> 0,
     date |-> "", row |-> 0, id_tok |-> <<>>, parent_tok |-> None]

\* a line of sql_queries that is no statement
Marker(fn, idx) == [BlankStmt EXCEPT !.cat = "comment", !.fn = fn, !.row = idx]

\* p_parent_id => {parent_id if parent_id else 'NULL'}
ParentSql(parent_id) == IF Truthy(parent_id) THEN parent_id ELSE None

RenumStmt(renum, date_str, idx) ==
    [BlankStmt EXCEPT !.cat = "Renumber", !.fn = "fn_balance_article_renum_up_down",
                      !.begin_ord = renum[1], !.end_ord = renum[2], !.shift_ord = renum[3],
                      !.date = date_str, !.row = idx]

RenameStmt(article_id, name, date_str, idx, id_tok) ==
    [BlankStmt EXCEPT !.cat = "Change", !.fn = "fn_balance_article_rename",
                      !.article_id = article_id, !.name = name,
                      !.date = date_str, !.row = idx, !.id_tok = id_tok]

LevelSetStmt(article_id, parent_id, lvl, date_str, idx, id_tok, parent_tok) ==
    [BlankStmt EXCEPT !.cat = "Change", !.fn = "fn_balance_article_level_set",
                      !.article_id = article_id, !.parent_id = ParentSql(parent_id),
                      !.lvl = lvl, !.date = date_str, !.row = idx,
                      !.id_tok = id_tok, !.parent_tok = parent_tok]

EndDateStmt(article_id, date_str, idx, id_tok) ==
    [BlankStmt EXCEPT !.cat = "Change", !.fn = "fn_balance_article_end_date_set",
                      !.article_id = article_id,
                      !.date = date_str, !.row = idx, !.id_tok = id_tok]

OrdSetStmt(article_id, ord, date_str, idx, id_tok) ==
    [BlankStmt EXCEPT !.cat = "Change", !.fn = "fn_balance_article_ord_set",
                      !.article_id = article_id, !.ord = ord,
                      !.date = date_str, !.row = idx, !.id_tok = id_tok]

AddStmt(article_id, parent_id, attrs, date_str, idx, id_tok) ==
    [BlankStmt EXCEPT !.cat = "Add", !.fn = "fn_balance_article_add_1",
                      !.article_id = article_id, !.parent_id = ParentSql(parent_id),
                      !.name = attrs[KeyName], !.ord = attrs[KeyOrd], !.lvl = attrs[KeyLvl],
                      !.date = date_str, !.row = idx,
                      !.id_tok = id_tok, !.parent_tok = Some(attrs[KeyParent])]

(***************************************************************************)
(* Pass 1 of process_file, one row (lines 190-213).  s holds the registry  *)
(* record of get_or_generate_id and the locals df and temp_id_counter.     *)
(***************************************************************************)
At(pass, idx) == [pass |-> pass, row |-> idx]

\* f"TEMP_{temp_id_counter}"
TempToken(n) == PrefixTEMP \o <<"_">> \o IntToStr(n)

\* "pd.isna(id_col) or not str(id_col).strip()"
IsBlankId(id_col) == isna(id_col) \/ Strip(id_col) = <<>>

\* line 199: the identifier column holds something that is no directive
Pass1ResolvesId(id_col) == notna(id_col) /\ parse_renum_action(id_col) = None

\* line 203: the condition under which the row is looked at for a parent and
\* for a blank identifier
Pass1LooksAtAttrs(row) == notna(row.attr)

\* the placeholder is resolved but not written into the row
Pass1Synthesize_NotWritten(s, idx) ==
    Resolve([s EXCEPT !.temp_id_counter = @ + 1], TempToken(s.temp_id_counter), At(1, idx))

\* lines 209-213
Pass1Synthesize(s, idx) ==
    Resolve([s EXCEPT !.temp_id_counter = @ + 1,
                                 !.df[idx].id = TempToken(s.temp_id_counter)],
                       TempToken(s.temp_id_counter), At(1, idx))

\* lines 203-213
Pass1Attrs(s, row, idx) ==
    Bind(parse_attributes(row.attr), LAMBDA attrs :
    Bind(IF HasKey(attrs, KeyParent)
         THEN Resolve(s, attrs[KeyParent], At(1, idx)) ELSE s, LAMBDA s1 :
        IF IsBlankId(row.id) THEN Pass1Synthesize(s1, idx) ELSE s1))

\* no row is skipped for its date
RowSkipped_Never(row) == FALSE

\* line 191 and line 227: the row is skipped
RowSkipped(row) == isnaDate(row.date)

Pass1Body(s, idx) ==
    Bind(s.df[idx], LAMBDA row :
        IF RowSkipped(row) THEN s
        ELSE Bind(IF Pass1ResolvesId(row.id)
                  THEN Resolve(s, row.id, At(1, idx)) ELSE s, LAMBDA s1 :
                IF Pass1LooksAtAttrs(row) THEN Pass1Attrs(s1, row, idx) ELSE s1))


(***************************************************************************)
(* Pass 2 of process_file, one row (lines 225-408).  s holds, besides the  *)
(* registry record, the locals renum_sql, addition_sql, change_sql,        *)
(* sql_queries, comment_lines and previous_begin, and raised: an exception *)
(* left the body of the try.  What was done before the exception stays.    *)
(***************************************************************************)
PhraseRename == Ru(<<"smenila", " ", "nazvanie", " ", "na">>)
PhraseAdd == Ru(<<"dobavlenie", " ", "stati">>)
PhraseLevelAnd == Ru(<<"menyaet", " ", "uroven", " ", "i_", " ", "roditelya">>)
PhraseLevelComma == Ru(<<"menyaet", " ", "uroven", ",", " ", "roditelya">>)
PhraseDelete == Ru(<<"logicheski", " ", "udalyaem", " ", "iz", " ", "dokumenta">>)
PhraseChanges == Ru(<<"menyaet">>)
PhraseChangesSp == Ru(<<"menyaet", " ">>)
ItemName == Ru(<<"imya">>)
ItemTitle == Ru(<<"nazvanie">>)
ItemOrd == <<"o", "r", "d">>
ItemPosition == Ru(<<"poziciyu">>)
ItemLevel == Ru(<<"uroven">>)
ItemParent == Ru(<<"roditelya">>)
\* r'\(roditel=(\d+) ostaetsya\)'
ParentKeptPattern ==
    <<Lit(Ru(<<"(", "roditel", "=">>)), Digits, Lit(Ru(<<" ", "ostaetsya", ")">>))>>
\* the default of attrs.get('lvl', '-1')
NoLevel == <<"-", "1">>

Raise(s) == [s EXCEPT !.raised = TRUE]

\* the directive emitted with the end it was parsed with
RenumBranch_EndAsParsed(s, renum, date_str, idx) ==
    [s EXCEPT !.renum_sql = Append(@, RenumStmt(renum, date_str, idx)),
              !.previous_begin = Some(renum[1])]

\* the begin of the first directive is remembered, not of the most recent one
RenumBranch_FirstRemembered(s, renum, date_str, idx) ==
    [s EXCEPT !.renum_sql =
                 Append(@, RenumStmt(<<renum[1],
                                       IF renum[2] = OpenEnd /\ s.previous_begin # None
                                       THEN s.previous_begin[1] - 1 ELSE renum[2],
                                       renum[3]>>, date_str, idx)),
              !.previous_begin = IF @ = None THEN Some(renum[1]) ELSE @]

\* lines 248-264
RenumBranch(s, renum, date_str, idx) ==
    LET end_ord == IF renum[2] = OpenEnd /\ s.previous_begin # None
                   THEN s.previous_begin[1] - 1 ELSE renum[2]
    IN  [s EXCEPT !.renum_sql = Append(@, RenumStmt(<<renum[1], end_ord, renum[3]>>,
                                                    date_str, idx)),
                  !.previous_begin = Some(renum[1])]

\* lines 270-274
IsAddition(action_col, attrs) ==
    \/ notna(action_col) /\ Contains(Lower(action_col), PhraseAdd)
    \/ isna(action_col) /\ \A k \in {KeyName, KeyOrd, KeyLvl, KeyParent} : HasKey(attrs, k)

\* lines 281-291
RenameBranch(s, row, date_str, idx) ==
    IF notna(row.attr)
    THEN Bind(Resolve(s, row.id, At(2, idx)), LAMBDA s1 :
            IF Truthy(s1.ret)
            THEN [s1 EXCEPT !.change_sql =
                    Append(@, RenameStmt(s1.ret[1], row.attr, date_str, idx, row.id))]
            ELSE s1)
    ELSE s

\* the tail shared by lines 304-314 and 366-376
LevelSetTail(s, article_id, parent_id, lvl, date_str, idx, id_tok, parent_tok) ==
    IF parent_id # None \/ lvl # NoLevel
    THEN [s EXCEPT !.change_sql =
            Append(@, LevelSetStmt(article_id, parent_id, lvl, date_str, idx,
                                   id_tok, parent_tok))]
    ELSE s

\* lines 294-314
LevelBranch(s, row, attrs, date_str, idx) ==
    Bind(Resolve(s, row.id, At(2, idx)), LAMBDA s1 :
        IF Truthy(s1.ret)
        THEN Bind(IF HasKey(attrs, KeyParent) THEN Strip(attrs[KeyParent]) ELSE <<>>,
                  LAMBDA parent_temp_id :
             Bind(IF parent_temp_id # <<>>
                  THEN Resolve(s1, parent_temp_id, At(2, idx))
                  ELSE [s1 EXCEPT !.ret = None], LAMBDA s2 :
                LevelSetTail(s2, s1.ret[1], s2.ret,
                             IF HasKey(attrs, KeyLvl) THEN attrs[KeyLvl] ELSE NoLevel,
                             date_str, idx, row.id,
                             IF parent_temp_id # <<>> THEN Some(parent_temp_id) ELSE None)))
        ELSE s1)

\* lines 317-325
DeleteBranch(s, row, date_str, idx) ==
    Bind(Resolve(s, row.id, At(2, idx)), LAMBDA s1 :
        IF Truthy(s1.ret)
        THEN [s1 EXCEPT !.change_sql =
                Append(@, EndDateStmt(s1.ret[1], date_str, idx, row.id))]
        ELSE s1)

\* line 338: the items of the text after the first "menyaet "
ChangedItems(text) ==
    Bind(Split(text, <<",", " ">>), LAMBDA items :
        { Strip(Split(items[k], <<" ", "(">>)[1]) :
            k \in {j \in 1..Len(items) : Strip(items[j]) # <<>>} })

\* lines 341-348
CompositeRename(s, article_id, changed_items, attrs, date_str, idx, id_tok) ==
    IF (ItemName \in changed_items \/ ItemTitle \in changed_items) /\ HasKey(attrs, KeyName)
    THEN [s EXCEPT !.change_sql =
            Append(@, RenameStmt(article_id, attrs[KeyName], date_str, idx, id_tok))]
    ELSE s

\* lines 351-357
CompositeOrd(s, article_id, changed_items, attrs, date_str, idx, id_tok) ==
    IF (ItemOrd \in changed_items \/ ItemPosition \in changed_items) /\ HasKey(attrs, KeyOrd)
    THEN [s EXCEPT !.change_sql =
            Append(@, OrdSetStmt(article_id, attrs[KeyOrd], date_str, idx, id_tok))]
    ELSE s

\* the parent of the action text is taken whenever the text has one
CompositeParentToken_ActionFirst(attrs, parent_from_action) ==
    IF parent_from_action # None THEN parent_from_action[1]
    ELSE IF HasKey(attrs, KeyParent) THEN attrs[KeyParent] ELSE <<>>

\* lines 362-364: the parent token of the level/parent part of a composite row;
\* <<>> stands for a token that is absent or empty ("not parent_temp")
CompositeParentToken(attrs, parent_from_action) ==
    Bind(IF HasKey(attrs, KeyParent) THEN attrs[KeyParent] ELSE <<>>, LAMBDA parent_temp :
        IF parent_temp = <<>> /\ parent_from_action # None
        THEN parent_from_action[1] ELSE parent_temp)

\* lines 360-376
CompositeLevel(s, article_id, changed_items, attrs, parent_from_action, date_str, idx, id_tok) ==
    IF ItemLevel \in changed_items \/ ItemParent \in changed_items
    THEN Bind(CompositeParentToken(attrs, parent_from_action), LAMBDA parent_temp :
         Bind(IF parent_temp # <<>>
              THEN Resolve(s, parent_temp, At(2, idx))
              ELSE [s EXCEPT !.ret = None], LAMBDA s1 :
            LevelSetTail(s1, article_id, s1.ret,
                         IF HasKey(attrs, KeyLvl) THEN attrs[KeyLvl] ELSE NoLevel,
                         date_str, idx, id_tok,
                         IF parent_temp # <<>> THEN Some(parent_temp) ELSE None)))
    ELSE s

\* lines 328-376
CompositeBranch(s, row, attrs, action_text, date_str, idx) ==
    Bind(Resolve(s, row.id, At(2, idx)), LAMBDA s1 :
        IF Truthy(s1.ret)
        THEN Bind(RegexSearch(ParentKeptPattern, action_text), LAMBDA found :
             Bind(Split(action_text, PhraseChangesSp), LAMBDA pieces :
                IF Len(pieces) < 2 THEN Raise(s1)
                ELSE Bind(ChangedItems(pieces[2]), LAMBDA changed_items :
                        CompositeLevel(
                            CompositeOrd(
                                CompositeRename(s1, s1.ret[1], changed_items, attrs,
                                                date_str, idx, row.id),
                                s1.ret[1], changed_items, attrs, date_str, idx, row.id),
                            s1.ret[1], changed_items, attrs,
                            IF found # None THEN Some(found[1][1]) ELSE None,
                            date_str, idx, row.id))))
        ELSE s1)

\* lines 378-380
UnknownBranch(s, idx) ==
    IF generate_file
    THEN [s EXCEPT !.sql_queries = Append(@, Marker("unknown_action", idx))]
    ELSE s

\* lines 277-380: the chain of if / elif over the action text
ActionBranch(s, row, attrs, date_str, idx) ==
    IF isna(row.action) THEN s
    ELSE Bind(Lower(Strip(row.action)), LAMBDA action_text :
        IF Contains(action_text, PhraseRename) THEN RenameBranch(s, row, date_str, idx)
        ELSE IF Contains(action_text, PhraseLevelAnd) \/ Contains(action_text, PhraseLevelComma)
             THEN LevelBranch(s, row, attrs, date_str, idx)
        ELSE IF Contains(action_text, PhraseDelete) THEN DeleteBranch(s, row, date_str, idx)
        ELSE IF Contains(action_text, PhraseChanges)
             THEN CompositeBranch(s, row, attrs, action_text, date_str, idx)
        ELSE UnknownBranch(s, idx))

\* lines 383-399; attrs['parent'], attrs['name'], attrs['ord'], attrs['lvl'] raise
\* KeyError for a key that is absent
AdditionBranch(s, row, attrs, date_str, idx) ==
    Bind(Resolve(s, row.id, At(2, idx)), LAMBDA s1 :
        IF ~HasKey(attrs, KeyParent) THEN Raise(s1)
        ELSE Bind(Resolve(s1, attrs[KeyParent], At(2, idx)), LAMBDA s2 :
                IF Truthy(s1.ret)
                THEN IF \A k \in {KeyName, KeyOrd, KeyLvl} : HasKey(attrs, k)
                     THEN [s2 EXCEPT !.addition_sql =
                             Append(@, AddStmt(s1.ret[1], s2.ret, attrs, date_str, idx,
                                               row.id))]
                     ELSE Raise(s2)
                ELSE s2))

\* the exception is caught and no marker is recorded for the row
RowError_NoMarker(s, idx) == [s EXCEPT !.raised = TRUE]

\* lines 403-408
RowError(s, idx) ==
    IF generate_file
    THEN [s EXCEPT !.sql_queries = Append(@, Marker("row_error", idx)), !.raised = TRUE]
    ELSE [s EXCEPT !.raised = TRUE]

\* lines 244-245
CommentLine(s, idx) ==
    IF generate_file THEN [s EXCEPT !.comment_lines = Append(@, idx)] ELSE s

\* lines 266-401: a dated row that is no directive
OrdinaryRow(s, row, date_str, idx) ==
    Bind(IF notna(row.attr) THEN parse_attributes(row.attr) ELSE EmptyDict, LAMBDA attrs :
    Bind(ActionBranch(s, row, attrs, date_str, idx), LAMBDA s1 :
        IF s1.raised THEN s1
        ELSE IF IsAddition(row.action, attrs)
             THEN AdditionBranch(s1, row, attrs, date_str, idx) ELSE s1))

\* lines 226-408: the body of the try and the except of one row
Pass2Body(s0, idx) ==
    Bind([s0 EXCEPT !.raised = FALSE], LAMBDA s :
    Bind(s.df[idx], LAMBDA row :
        IF RowSkipped(row) THEN s
        ELSE IF DateRaises(row.date) THEN RowError(s, idx)
        ELSE Bind(parse_renum_action(row.id), LAMBDA renum_action :
             Bind(IF renum_action # None
                  THEN RenumBranch(CommentLine(s, idx), renum_action[1],
                                   FormatDate(row.date), idx)
                  ELSE OrdinaryRow(CommentLine(s, idx), row, FormatDate(row.date), idx),
                  LAMBDA s2 :
                IF s2.raised THEN RowError(s2, idx) ELSE s2))))


(***************************************************************************)
(* The operations of process_file.                                         *)
(***************************************************************************)
\* the locals and the registry as one record, for the bodies above
Locals ==
    [ids |-> generated_ids, seq |-> db_seq, calls |-> db_calls, trace |-> trace,
     ret |-> None, df |-> df, temp_id_counter |-> temp_id_counter,
     previous_begin |-> previous_begin, renum_sql |-> renum_sql,
     addition_sql |-> addition_sql, change_sql |-> change_sql,
     comment_lines |-> comment_lines, sql_queries |-> sql_queries, raised |-> FALSE]

\* lines 183-186: the lines a script starts with
ScriptHeader ==
    IF generate_file
    THEN <<Marker("source", 0), Marker("report_id", 0), Marker("open_comment", 0)>>
    ELSE <<>>

\* the registry is kept from one call of process_file to the next
RegistryAtStart_Keep(ids) == ids

\* line 171: the registry a call of process_file starts with
RegistryAtStart(ids) == EmptyDict

\* lines 168-189: reset, read the file, connect, start the script, enter pass 1.
\* A file that cannot be read, or a connection that cannot be made, returns [].
ProcessFileStart ==
    /\ pc = "main"
    /\ file_no < Len(input_files)
    /\ \E file \in {input_files[file_no + 1]} :
           /\ file_no' = file_no + 1
           /\ generated_ids' = RegistryAtStart(generated_ids)
           /\ IF ~file.readable \/ ~file.db_up
              THEN /\ queries' = <<>>
                   /\ UNCHANGED <<pc, df, index, temp_id_counter, sql_queries, conn,
                                  open_conns>>
              ELSE /\ pc' = "pass1"
                   /\ df' = file.rows
                   /\ index' = 1
                   /\ temp_id_counter' = 1
                   /\ sql_queries' = ScriptHeader
                   /\ conn' = "open"
                   /\ open_conns' = open_conns + 1
                   /\ UNCHANGED queries
    /\ UNCHANGED <<input_files, generate_file, db_fail_plan, committed, previous_begin,
                   renum_sql, addition_sql, change_sql, comment_lines, db_seq, db_calls,
                   trace, prev_ids, errors>>

\* lines 190-213: one turn of the loop of pass 1
Pass1Row ==
    /\ pc = "pass1"
    /\ index <= Len(df)
    /\ \E s \in {Pass1Body(Locals, index)} :
           /\ generated_ids' = s.ids
           /\ db_seq' = s.seq
           /\ db_calls' = s.calls
           /\ trace' = s.trace
           /\ df' = s.df
           /\ temp_id_counter' = s.temp_id_counter
    /\ index' = index + 1
    /\ UNCHANGED <<input_files, generate_file, db_fail_plan, committed, file_no, pc,
                   previous_begin, renum_sql, addition_sql, change_sql, comment_lines,
                   sql_queries, queries, conn, open_conns, prev_ids, errors>>

\* lines 215-224: between the passes
Pass1Done ==
    /\ pc = "pass1"
    /\ index > Len(df)
    /\ pc' = "pass2"
    /\ index' = 1
    /\ comment_lines' = <<>>
    /\ renum_sql' = <<>>
    /\ addition_sql' = <<>>
    /\ change_sql' = <<>>
    /\ previous_begin' = None
    /\ errors' = <<>>
    /\ UNCHANGED <<input_files, generate_file, db_fail_plan, committed, file_no, df,
                   generated_ids, temp_id_counter, sql_queries, queries, conn,
                   open_conns, db_seq, db_calls, trace, prev_ids>>

\* lines 225-408: one turn of the loop of pass 2
Pass2Row ==
    /\ pc = "pass2"
    /\ index <= Len(df)
    /\ \E s \in {Pass2Body(Locals, index)} :
           /\ generated_ids' = s.ids
           /\ db_seq' = s.seq
           /\ db_calls' = s.calls
           /\ trace' = s.trace
           /\ previous_begin' = s.previous_begin
           /\ renum_sql' = s.renum_sql
           /\ addition_sql' = s.addition_sql
           /\ change_sql' = s.change_sql
           /\ comment_lines' = s.comment_lines
           /\ sql_queries' = s.sql_queries
           /\ errors' = IF s.raised THEN Append(errors, index) ELSE errors
    /\ index' = index + 1
    /\ UNCHANGED <<input_files, generate_file, db_fail_plan, committed, file_no, pc, df,
                   temp_id_counter, queries, conn, open_conns, prev_ids>>

\* the buckets put together in the order change, addition, renumber
Assemble_ChangeFirst(head, renum, addition, change) == head \o change \o addition \o renum

\* lines 410-413: the statements in the order they are returned
Assemble(head, renum, addition, change) == head \o renum \o addition \o change

\* lines 415-417
ScriptFooter ==
    IF generate_file /\ comment_lines # <<>> THEN <<Marker("close_comment", 0)>> ELSE <<>>

\* line 547, "if queries:" in execute mode: main() goes on to execute_queries
\* when process_file returned a list that is not empty
AfterReturn(returned) == IF ~generate_file /\ returned # <<>> THEN "execute" ELSE "main"

\* lines 410-427: put the statements together, close the script, disconnect in
\* execute mode, return
ProcessFileEnd ==
    /\ pc = "pass2"
    /\ index > Len(df)
    /\ sql_queries' = Assemble(sql_queries, renum_sql, addition_sql, change_sql)
                        \o ScriptFooter
    /\ queries' = sql_queries'
    /\ pc' = AfterReturn(queries')
    /\ IF ~generate_file /\ conn = "open"
       THEN conn' = "None" /\ open_conns' = open_conns - 1
       ELSE UNCHANGED <<conn, open_conns>>
    /\ prev_ids' = Append(prev_ids, generated_ids)
    /\ UNCHANGED <<input_files, generate_file, db_fail_plan, committed, file_no, df,
                   index, generated_ids, temp_id_counter, previous_begin, renum_sql,
                   addition_sql, change_sql, comment_lines, db_seq, db_calls, trace,
                   errors>>

\* line 437: a line that starts with "--" (or is blank) is not executed
IsSkipped(q) == q.cat = "comment" /\ q.fn \notin {"open_comment", "close_comment"}
Executable(qs) == SelectSeq(qs, LAMBDA q : ~IsSkipped(q))

\* lines 429-432: execute_queries connects; when the connection cannot be
\* made it returns False
ExecuteQueriesStart ==
    /\ pc = "execute"
    /\ \E connected \in BOOLEAN :
           IF connected
           THEN pc' = "cursor" /\ conn' = "open" /\ open_conns' = open_conns + 1
           ELSE pc' = "main" /\ UNCHANGED <<conn, open_conns>>
    /\ UNCHANGED <<input_files, generate_file, db_fail_plan, file_no, df, index,
                   generated_ids, temp_id_counter, previous_begin, renum_sql,
                   addition_sql, change_sql, comment_lines, sql_queries, queries,
                   committed, db_seq, db_calls, trace, prev_ids, errors>>

\* lines 434-449: every line that is not skipped is executed and the whole is
\* committed; when a statement or the commit raises, the whole is rolled
\* back; the connection is closed either way
ExecuteQueriesEnd ==
    /\ pc = "cursor"
    /\ pc' = "main"
    /\ \E raises \in BOOLEAN :
           committed' = IF raises THEN committed ELSE committed \o Executable(queries)
    /\ conn' = "None"
    /\ open_conns' = open_conns - 1
    /\ UNCHANGED <<input_files, generate_file, db_fail_plan, file_no, df, index,
                   generated_ids, temp_id_counter, previous_begin, renum_sql,
                   addition_sql, change_sql, comment_lines, sql_queries, queries,
                   db_seq, db_calls, trace, prev_ids, errors>>

Next ==
    \/ ProcessFileStart \/ Pass1Row \/ Pass1Done \/ Pass2Row \/ ProcessFileEnd
    \/ ExecuteQueriesStart \/ ExecuteQueriesEnd

(***************************************************************************)
(* Inputs.  The bounds of the model and the cells the rows are made of.    *)
(***************************************************************************)
\* rows of a file, at most
MaxRows == 3
\* the allocation calls that may fail are among the first MaxFailCall calls
MaxFailCall == 2
\* the first value the database's ID sequence hands out
FirstNewId == 101

\* the database raises on any of the first MaxFailCall allocation calls, or on none
FailPlans == SUBSET (1..MaxFailCall)

SeqsUpTo(R, n) == UNION {[1..k -> R] : k \in 0..n}

File(rows) == [rows |-> rows, readable |-> TRUE, db_up |-> TRUE]
Row(date, id, action, attr) == [date |-> date, id |-> id, action |-> action, attr |-> attr]
Dateless(row) == [row EXCEPT !.date = NaT]

TokID1 == <<"I", "D", "1">>
TokID2 == <<"I", "D", "2">>
Tok40 == <<"4", "0">>
Tok040 == <<" ", "0", "4", "0", " ">>
KV(k, v) == k \o <<"=">> \o v
\* "stati s poryadkom > 9 vniz na 2", with a capital first letter
TextRenumOpen ==
    Ru(<<"Stati", " ", "s_", " ", "poryadkom", " ", ">", " ", "9", " ", "vniz", " ", "na",
      " ", "2">>)
\* "stati s poryadkom >= 30 i poryadkom <= 40 vniz na +5"
TextRenumBounded ==
    Ru(<<"stati", " ", "s_", " ", "poryadkom", " ", ">", "=", " ", "3", "0", " ", "i_", " ",
      "poryadkom", " ", "<", "=", " ", "4", "0", " ", "vniz", " ", "na", " ", "+", "5">>)
TextAddAction == Ru(<<"Dobavlenie", " ", "stati">>)
TextDeleteAction == Ru(<<"Logicheski", " ", "udalyaem", " ", "iz", " ", "dokumenta">>)
TextLevelAction == Ru(<<"Menyaet", " ", "uroven", " ", "i_", " ", "roditelya">>)
\* name=N / ord=5 / lvl=2 / parent=<parent>, one per line
AddAttrs(parent) ==
    KV(KeyName, <<"N">>) \o <<"\n">> \o KV(KeyOrd, <<"5">>) \o <<"\n">>
      \o KV(KeyLvl, <<"2">>) \o <<"\n">> \o KV(KeyParent, parent)
LevelAttrs(parent) ==
    KV(KeyLvl, <<"3">>) \o <<"<", "b", "r", ">">>
      \o KV(KeyParent, parent)

RowRenumOpen == Row(GoodDate, TextRenumOpen, NaN, NaN)
RowRenumBounded == Row(GoodDate, TextRenumBounded, NaN, NaN)
\* a creation row with a blank identifier column, under the parent ID1
RowAddBlank == Row(GoodDate, NaN, TextAddAction, AddAttrs(TokID1))
\* the creation row of ID1, under the parent 40
RowAddID1 == Row(GoodDate, TokID1, TextAddAction, AddAttrs(Tok40))
\* ID2 moves under the parent ID1
RowLevelID2 == Row(GoodDate, TokID2, TextLevelAction, LevelAttrs(TokID1))
\* the article " 040 " is deleted
RowDelete040 == Row(GoodDate, Tok040, TextDeleteAction, NaN)

DriverRows ==
    {RowRenumOpen, RowRenumBounded, RowAddBlank, RowAddID1, RowLevelID2,
     RowDelete040, Dateless(RowRenumOpen), Dateless(RowAddBlank)}

UnreadableFile == [rows |-> <<RowAddID1>>, readable |-> FALSE, db_up |-> TRUE]
DbDownFile == [rows |-> <<RowAddID1>>, readable |-> TRUE, db_up |-> FALSE]

\* the state after BalanceProcessor(config), before the first file
InitWith(file_lists) ==
    /\ input_files \in file_lists
    /\ generate_file \in BOOLEAN
    /\ db_fail_plan \in FailPlans
    /\ file_no = 0
    /\ pc = "main"
    /\ df = <<>>
    /\ index = 1
    /\ generated_ids = EmptyDict
    /\ temp_id_counter = 1
    /\ previous_begin = None
    /\ renum_sql = <<>>
    /\ addition_sql = <<>>
    /\ change_sql = <<>>
    /\ comment_lines = <<>>
    /\ sql_queries = <<>>
    /\ queries = <<>>
    /\ conn = "None"
    /\ open_conns = 0
    /\ committed = <<>>
    /\ db_seq = FirstNewId
    /\ db_calls = 0
    /\ trace = <<>>
    /\ prev_ids = <<>>
    /\ errors = <<>>

\* one file of at most MaxRows rows
DriverFileLists ==
    {<<File(rows)>> : rows \in SeqsUpTo(DriverRows, MaxRows)}
      \cup {<<UnreadableFile>>, <<DbDownFile>>}

Init == InitWith(DriverFileLists)
Spec == Init /\ [][Next]_vars

(***************************************************************************)
(* Properties of the driver, checked under Spec.                           *)
(***************************************************************************)
\* the file given to the last call of process_file has been processed to its
\* return, and queries is what the call returned
Returned == pc \in {"main", "execute", "cursor"} /\ file_no >= 1
                /\ input_files[file_no].readable /\ input_files[file_no].db_up

IsStatement(q) == q.cat \in {"Renumber", "Add", "Change"}
Statements == {k \in DOMAIN queries : IsStatement(queries[k])}
Rank(cat) == CASE cat = "Renumber" -> 1 [] cat = "Add" -> 2 [] OTHER -> 3

\* the token of a call is a temporary token: ID... or TEMP... once stripped
IsTempCall(ev) == notna(ev.tok) /\ ev.tok # <<>> /\ IsTempToken(Strip(ev.tok))
\* the token of a call is all digits once stripped
IsDigitCall(ev) == notna(ev.tok) /\ ev.tok # <<>> /\ IsDigit(Strip(ev.tok))

\* C1 (as the spec states it): within one run of process_file every resolution
\* of the same temporary token returns the same integer, in pass 1 and in pass 2
\* alike, and the statements that carry the token as article carry the same ID.
\* The code does not cache a failed allocation: a later resolution of the token
\* allocates again, so the first resolution returns None and a later one an ID.
C1_SameTokenSameId ==
    /\ \A i, j \in DOMAIN trace :
          (/\ trace[i].file = trace[j].file
           /\ IsTempCall(trace[i]) /\ IsTempCall(trace[j])
           /\ Strip(trace[i].tok) = Strip(trace[j].tok))
          => trace[i].ret = trace[j].ret
    /\ \A k, l \in Statements :
          (queries[k].id_tok # <<>> /\ notna(queries[k].id_tok)
           /\ Strip(queries[k].id_tok) = Strip(queries[l].id_tok))
          => queries[k].article_id = queries[l].article_id

\* C2: a token whose stripped text is all digits resolves to that number; the
\* call makes no allocation call and leaves the registry as it was.
C2_DigitTokenIsItsNumber ==
    \A i \in DOMAIN trace :
        IsDigitCall(trace[i]) =>
            /\ trace[i].ret = Some(ToInt(Strip(trace[i].tok)))
            /\ trace[i].tok \in {Tok40, Tok040} => trace[i].ret = <<40>>
            /\ trace[i].calls_after = trace[i].calls_before
            /\ trace[i].ids_after = trace[i].ids_before

\* a digit token was resolved while the registry held a token, in either pass
C2_Witness ==
    /\ \E i \in DOMAIN trace :
          /\ trace[i].tok = Tok040 /\ trace[i].ret = <<40>>
          /\ trace[i].ids_before # EmptyDict
    /\ \E i \in DOMAIN trace :
          trace[i].tok = Tok40 /\ trace[i].ret = <<40>> /\ trace[i].pass = 1

\* C3: the returned statements are ordered: every Renumber statement, then
\* every Add statement, then every Change statement; and the statements of one
\* category are in the order of the rows they come from.
C3_StatementsOrdered ==
    \A k, l \in Statements :
        k < l => \/ Rank(queries[k].cat) < Rank(queries[l].cat)
                 \/ /\ queries[k].cat = queries[l].cat
                    /\ queries[k].row <= queries[l].row

\* a returned list with a statement of each category, from rows in the opposite
\* order: the change row first, the directive row last
C3_Witness ==
    /\ Returned
    /\ \E k, l, m \in Statements :
          /\ k < l /\ l < m
          /\ queries[k].cat = "Renumber" /\ queries[l].cat = "Add"
          /\ queries[m].cat = "Change"
          /\ queries[k].row > queries[l].row /\ queries[l].row > queries[m].row

\* C4: a row without a change date is skipped in both passes: its turn of the
\* loop allocates no ID, makes no placeholder, does not advance the placeholder
\* counter, does not update previous_begin, and emits no statement, no comment
\* line and no marker.
C4_DatelessRowSkipped ==
    [][ (pc \in {"pass1", "pass2"} /\ index \in DOMAIN df /\ isnaDate(df[index].date))
          => /\ index' = index + 1
             /\ UNCHANGED <<generated_ids, db_seq, db_calls, trace, df, temp_id_counter,
                            previous_begin, renum_sql, addition_sql, change_sql,
                            comment_lines, sql_queries, errors>> ]_vars

\* a file was processed in which a dateless creation row with a blank
\* identifier and a dateless directive come before a dated open-ended
\* directive, which was emitted with the end it was parsed with
C4_Witness ==
    /\ Returned
    /\ \E i, j, k \in DOMAIN df :
          /\ df[i] = Dateless(RowAddBlank)
          /\ df[j] = Dateless(RowRenumOpen)
          /\ j < k /\ df[k] = RowRenumOpen
          /\ \E q \in Statements :
                queries[q].row = k /\ queries[q].end_ord = OpenEnd

\* the row is dated and its identifier column holds a directive
\* what parse_renum_action gives for an identifier cell; the cells of the
\* driver's rows are parsed once
DriverIds == {r.id : r \in DriverRows}
DriverParsed == [t \in DriverIds |-> parse_renum_action(t)]
Parsed(t) == IF t \in DriverIds THEN DriverParsed[t] ELSE parse_renum_action(t)
IsDirectiveRow(row) == ~isnaDate(row.date) /\ Parsed(row.id) # None
\* a directive with an upper bound ("<=") and one without
IsBoundedRow(row) == IsDirectiveRow(row) /\ Contains(Lower(row.id), <<"<", "=">>)
IsOpenEndedRow(row) == IsDirectiveRow(row) /\ ~Contains(Lower(row.id), <<"<", "=">>)
BeginOf(row) == Parsed(row.id)[1][1]
\* the Renumber statement of row i was returned, with the end e
RenumberEnds(i, e) ==
    /\ \E q \in Statements : queries[q].cat = "Renumber" /\ queries[q].row = i
    /\ \A q \in Statements :
          queries[q].cat = "Renumber" /\ queries[q].row = i => queries[q].end_ord = e

\* C9 (as the spec states it): an open-ended directive row immediately followed
\* by a bounded directive row whose begin is 30 is emitted with end 29.
C9_ClosedByNextRow ==
    Returned =>
        \A i \in DOMAIN df :
            (/\ i + 1 \in DOMAIN df
             /\ IsOpenEndedRow(df[i])
             /\ IsBoundedRow(df[i + 1]) /\ BeginOf(df[i + 1]) = 30)
            => RenumberEnds(i, 29)

\* C9 (corrected): an open-ended directive row immediately preceded by a
\* directive row whose begin is 30 is emitted with end 29: the end is closed with
\* the begin of the directive before it, not of the one after it.
C9_ClosedByPreviousRow ==
    Returned =>
        \A i \in DOMAIN df :
            (/\ i - 1 \in DOMAIN df
             /\ IsOpenEndedRow(df[i])
             /\ IsDirectiveRow(df[i - 1]) /\ BeginOf(df[i - 1]) = 30)
            => RenumberEnds(i, 29)

\* the bounded directive with begin 30, then the open-ended directive, returned
\* with end 29
C9_Witness ==
    /\ Returned
    /\ \E i \in DOMAIN df :
          /\ i - 1 \in DOMAIN df
          /\ df[i - 1] = RowRenumBounded /\ df[i] = RowRenumOpen
          /\ RenumberEnds(i, 29)

(***************************************************************************)
(* Two files processed one after the other by one BalanceProcessor, as     *)
(* main does for the files the user selects (lines 541-568).               *)
(***************************************************************************)
TwoFileRows == {RowAddID1, RowLevelID2, RowAddBlank, RowDelete040}

\* two files, each of at least one row, of at most MaxRows rows together
TwoFileLists ==
    {<<File(p[1]), File(p[2])>> :
        p \in {q \in (SeqsUpTo(TwoFileRows, MaxRows) \ {<<>>})
                        \X (SeqsUpTo(TwoFileRows, MaxRows) \ {<<>>}) :
                  Len(q[1]) + Len(q[2]) <= MaxRows}}

InitTwoFiles == InitWith(TwoFileLists)
SpecTwoFiles == InitTwoFiles /\ [][Next]_vars

\* C10: the registry is empty when process_file starts on a file, so a
\* temporary token of a later file never resolves to the ID that the same token
\* text was given in an earlier file.
C10_FreshRegistryPerFile ==
    /\ (pc = "pass1" /\ index = 1) => generated_ids = EmptyDict
    /\ \A i, j \in DOMAIN trace :
          (/\ trace[i].file < trace[j].file
           /\ IsTempCall(trace[i]) /\ IsTempCall(trace[j])
           /\ Strip(trace[i].tok) = Strip(trace[j].tok)
           /\ trace[i].ret # None)
          => trace[j].ret # trace[i].ret

\* ID1 and the placeholder TEMP_1 were each given an ID in the first file and
\* another ID in the second file
C10_Witness ==
    \A tok \in {TokID1, TempToken(1)} :
        \E i, j \in DOMAIN trace :
            /\ trace[i].file = 1 /\ trace[j].file = 2
            /\ trace[i].tok = tok /\ trace[j].tok = tok
            /\ trace[i].ret # None /\ trace[j].ret # None
            /\ trace[i].ret # trace[j].ret
            /\ tok \in DOMAIN prev_ids[1]

(***************************************************************************)
(* Creation rows.  One row under test: the identifier column blank (NaN or *)
(* white space) or ID2, the action the add-article phrase or absent, and   *)
(* any subset of the attributes name, ord, lvl and parent; alone in its    *)
(* file, after a creation row, or before the row that creates its parent.  *)
(***************************************************************************)
AddKeys == {KeyName, KeyOrd, KeyLvl, KeyParent}
ParentTokens == {TokID1, Tok40}
BlankIds == {NaN, <<" ">>}

RECURSIVE JoinLines(_)
JoinLines(ls) ==
    IF ls = <<>> THEN <<>>
    ELSE IF Len(ls) = 1 THEN ls[1].text
    ELSE ls[1].text \o <<"\n">> \o JoinLines(Tail(ls))

\* the attribute cell with the keys K, one "key=value" per line; no cell when
\* K is empty
AttrText(K, parent) ==
    IF K = {} THEN NaN
    ELSE JoinLines(SelectSeq(<<[key |-> KeyName, text |-> KV(KeyName, <<"N">>)],
                               [key |-> KeyOrd, text |-> KV(KeyOrd, <<"5">>)],
                               [key |-> KeyLvl, text |-> KV(KeyLvl, <<"2">>)],
                               [key |-> KeyParent, text |-> KV(KeyParent, parent)]>>,
                             LAMBDA l : l.key \in K))

AddShapeRows ==
    {Row(GoodDate, id, action, AttrText(K, parent)) :
        id \in BlankIds \cup {TokID2}, action \in {TextAddAction, NaN},
        K \in SUBSET AddKeys, parent \in ParentTokens}

AddFileLists ==
    UNION {{<<File(<<r>>)>>, <<File(<<RowAddBlank, r>>)>>, <<File(<<r, RowAddID1>>)>>} :
            r \in AddShapeRows}

InitAdd == InitWith(AddFileLists)
SpecAdd == InitAdd /\ [][Next]_vars

\* the rows of the file being processed, as they were read
RowsRead == input_files[file_no].rows
StatementsOfRow(i) == {k \in Statements : queries[k].row = i}
\* what a parent token stands for once the file is processed
ParentResolved(tok) ==
    IF IsDigit(Strip(tok)) THEN Some(ToInt(Strip(tok)))
    ELSE IF Strip(tok) \in DOMAIN generated_ids THEN Some(generated_ids[Strip(tok)])
    ELSE None
\* row i was read as a creation row with all four attributes under the parent
\* token and a blank identifier column
IsBlankCreateRow(i, parent) ==
    /\ RowsRead[i].date = GoodDate
    /\ RowsRead[i].id \in BlankIds
    /\ RowsRead[i].action \in {TextAddAction, NaN}
    /\ RowsRead[i].attr = AttrText(AddKeys, parent)
\* the identifier column of row i holds a placeholder
HoldsPlaceholder(i) == \E n \in 1..Len(df) : df[i].id = TempToken(n)

\* C5: a dated creation row with name, ord, lvl and parent and a blank
\* identifier column holds a synthesized placeholder after pass 1; and when the
\* placeholder has been given an ID, the call returns exactly one statement for
\* the row, an Add statement whose article ID is the placeholder's ID and whose
\* parent ID is what the parent token resolved to.
C5_BlankCreateRowAdded ==
    (file_no >= 1 /\ (pc = "pass2" \/ Returned)) =>
        \A i \in DOMAIN df : \A parent \in ParentTokens :
            IsBlankCreateRow(i, parent) =>
                /\ HoldsPlaceholder(i)
                /\ (Returned /\ df[i].id \in DOMAIN generated_ids) =>
                      /\ Cardinality(StatementsOfRow(i)) = 1
                      /\ \A k \in StatementsOfRow(i) :
                            /\ queries[k].cat = "Add"
                            /\ queries[k].fn = "fn_balance_article_add_1"
                            /\ queries[k].article_id = generated_ids[df[i].id]
                            /\ queries[k].parent_id = ParentResolved(parent)

\* after a creation row that took TEMP_1, a creation row without an action
\* text and with a blank identifier was returned as the Add statement of TEMP_2
\* under the ID of ID1
C5_Witness ==
    /\ Returned
    /\ Len(df) = 2
    /\ IsBlankCreateRow(2, TokID1) /\ RowsRead[2].action = NaN
    /\ df[2].id = TempToken(2)
    /\ \E k \in StatementsOfRow(2) :
          /\ queries[k].cat = "Add"
          /\ queries[k].article_id = generated_ids[TempToken(2)]
          /\ queries[k].parent_id = Some(generated_ids[TokID1])
          /\ queries[k].article_id # generated_ids[TempToken(1)]

\* the attributes of row i as pass 2 parses them
AttrsRead(i) == IF notna(RowsRead[i].attr) THEN parse_attributes(RowsRead[i].attr)
                ELSE EmptyDict
\* row i is dated, its action holds the add-article phrase, and one of name,
\* ord, lvl, parent is missing
IsIncompleteAddRow(i) ==
    /\ ~isnaDate(RowsRead[i].date)
    /\ notna(RowsRead[i].action) /\ Contains(Lower(RowsRead[i].action), PhraseAdd)
    /\ \E key \in AddKeys : ~HasKey(AttrsRead(i), key)
HasErrorMarker(i) ==
    \E k \in DOMAIN queries : queries[k].cat = "comment" /\ queries[k].fn = "row_error"
                                 /\ queries[k].row = i

\* C6 (as the spec states it): a row with the add-article phrase in which one of
\* name, ord, lvl, parent is missing is a no-op: no statement is returned for it,
\* no exception is raised and caught for it and no error marker is recorded.
\* The code reads attrs['parent'], attrs['name'], attrs['ord'] and attrs['lvl']
\* without a test: the missing key raises KeyError, caught by the row's except.
C6_IncompleteAddIsNoOp ==
    Returned =>
        \A i \in DOMAIN df :
            IsIncompleteAddRow(i) =>
                /\ StatementsOfRow(i) = {}
                /\ \A k \in DOMAIN errors : errors[k] # i
                /\ ~HasErrorMarker(i)

(***************************************************************************)
(* Composite rows.  One row "Menyaet <aspects>[ (roditel=40 ostaetsya)]"   *)
(* for the article ID2: at most one word for the name, one for the order   *)
(* and one for the level or the parent; any of the attributes name, ord    *)
(* and lvl; and the attribute parent absent, empty ("parent=") or ID1.     *)
(***************************************************************************)
NoAspect == <<>>
NameAspects == {NoAspect, ItemName, ItemTitle}
OrdAspects == {NoAspect, ItemOrd, ItemPosition}
LevelAspects == {NoAspect, ItemLevel, ItemParent}
\* "(roditel=40 ostaetsya)"
ParentKeptText == Ru(<<"(", "roditel", "=", "4", "0", " ", "ostaetsya", ")">>)
EmptyToken == <<>>
AttrParents == {EmptyToken, TokID1}

RECURSIVE JoinItems(_)
JoinItems(items) ==
    IF items = <<>> THEN <<>>
    ELSE IF Len(items) = 1 THEN items[1]
    ELSE items[1] \o <<",", " ">> \o JoinItems(Tail(items))

\* the action text naming the aspects, with or without the parenthetical
CompositeText(name_a, ord_a, level_a, kept) ==
    Ru(<<"Menyaet", " ">>)
      \o JoinItems(SelectSeq(<<name_a, ord_a, level_a>>, LAMBDA a : a # NoAspect))
      \o (IF kept THEN <<" ">> \o ParentKeptText ELSE <<>>)

CompositeTexts ==
    {CompositeText(name_a, ord_a, level_a, kept) :
        name_a \in NameAspects, ord_a \in OrdAspects, level_a \in LevelAspects,
        kept \in BOOLEAN}
      \ {CompositeText(NoAspect, NoAspect, NoAspect, kept) : kept \in BOOLEAN}

CompositeRows ==
    {Row(GoodDate, TokID2, text, AttrText(K, parent)) :
        text \in CompositeTexts, K \in SUBSET AddKeys, parent \in AttrParents}

CompositeFileLists == {<<File(<<r>>)>> : r \in CompositeRows}

InitComposite == InitWith(CompositeFileLists)
SpecComposite == InitComposite /\ [][Next]_vars

\* the action text of row i names the word, as a word
Names(i, word) == Contains(Lower(RowsRead[i].action), word)
\* the statements returned for row i that call fn
CallsOfRow(i, fn) == {k \in StatementsOfRow(i) : queries[k].fn = fn}
\* row i is a dated composite row whose article token has an ID
IsCompositeRow(i) ==
    /\ RowsRead[i].date = GoodDate
    /\ RowsRead[i].action \in CompositeTexts
    /\ Strip(RowsRead[i].id) \in DOMAIN generated_ids

\* what C7 says of the rename, the order-set and the level/parent-set of row i
CompositeParts(i) ==
    /\ \A k \in StatementsOfRow(i) : queries[k].cat = "Change"
    /\ Cardinality(CallsOfRow(i, "fn_balance_article_rename"))
         = IF (Names(i, ItemName) \/ Names(i, ItemTitle)) /\ HasKey(AttrsRead(i), KeyName)
           THEN 1 ELSE 0
    /\ Cardinality(CallsOfRow(i, "fn_balance_article_ord_set"))
         = IF (Names(i, ItemOrd) \/ Names(i, ItemPosition)) /\ HasKey(AttrsRead(i), KeyOrd)
           THEN 1 ELSE 0
    /\ CallsOfRow(i, "fn_balance_article_level_set") # {}
         => Names(i, ItemLevel) \/ Names(i, ItemParent)
    /\ StatementsOfRow(i) = CallsOfRow(i, "fn_balance_article_rename")
                              \cup CallsOfRow(i, "fn_balance_article_ord_set")
                              \cup CallsOfRow(i, "fn_balance_article_level_set")
    /\ (/\ ~Names(i, ItemLevel) /\ ~Names(i, ItemParent)
        /\ HasKey(AttrsRead(i), KeyName) /\ HasKey(AttrsRead(i), KeyOrd)
        /\ Names(i, ItemName) /\ Names(i, ItemPosition))
         => Cardinality(StatementsOfRow(i)) = 2

\* a statement of row i has the parent 40 of the parenthetical
UsesKeptParent(i) ==
    \E k \in StatementsOfRow(i) :
        queries[k].parent_tok = Some(Tok40) /\ queries[k].parent_id = Some(40)

\* C7 (as the spec states it): for a composite row with a resolvable article ID
\* a rename is returned iff name or title is named and name is an attribute; an
\* order-set iff ord or position is named and ord is an attribute; a
\* level/parent-set only if level or parent is named; the parent of the
\* parenthetical is used only when level or parent is named and no parent
\* attribute is supplied; and "changes name, position (parent=40 unchanged)"
\* with name and ord gives exactly two Change statements.
C7_CompositeAsStated ==
    Returned =>
        \A i \in DOMAIN df :
            IsCompositeRow(i) =>
                /\ CompositeParts(i)
                /\ UsesKeptParent(i) =>
                      /\ Names(i, ItemLevel) \/ Names(i, ItemParent)
                      /\ ~HasKey(AttrsRead(i), KeyParent)

\* C7 (corrected): the same, but the parent of the parenthetical is used only
\* when level or parent is named and the parent attribute is absent or empty.
C7_CompositeParentAbsentOrEmpty ==
    Returned =>
        \A i \in DOMAIN df :
            IsCompositeRow(i) =>
                /\ CompositeParts(i)
                /\ UsesKeptParent(i) =>
                      /\ Names(i, ItemLevel) \/ Names(i, ItemParent)
                      /\ Names(i, ParentKeptText)
                      /\ \/ ~HasKey(AttrsRead(i), KeyParent)
                         \/ AttrsRead(i)[KeyParent] = EmptyToken

\* "Menyaet imya, poziciyu (roditel=40 ostaetsya)" with name and ord was
\* returned as a rename and an order-set and nothing else
C7_Witness ==
    /\ Returned
    /\ RowsRead[1].action = CompositeText(ItemName, ItemPosition, NoAspect, TRUE)
    /\ RowsRead[1].attr = AttrText({KeyName, KeyOrd}, EmptyToken)
    /\ Cardinality(CallsOfRow(1, "fn_balance_article_rename")) = 1
    /\ Cardinality(CallsOfRow(1, "fn_balance_article_ord_set")) = 1
    /\ Cardinality(StatementsOfRow(1)) = 2

(***************************************************************************)
(* Directive texts.  One row whose identifier column holds a directive     *)
(* written out from a description (the comparison, the numbers, "+" or not *)
(* before the shift, blanks or not around the comparison, a capital first  *)
(* letter or not, words before it or not), or a text that is no directive. *)
(***************************************************************************)
Num(text, val) == [text |-> text, val |-> val]
BeginNums == {Num(<<"9">>, 9), Num(<<"0", "9">>, 9), Num(<<"3", "0">>, 30)}
EndNums == {Num(<<"4", "0">>, 40), Num(<<"1", "0", "0", "0">>, 1000)}
ShiftNums == {Num(<<"2">>, 2), Num(<<"1", "5">>, 15)}
Comparisons == {"gt", "ge", "between"}

Directives ==
    [cmp : Comparisons, n : BeginNums, m : EndNums, k : ShiftNums, plus : BOOLEAN,
     tight : BOOLEAN, capital : BOOLEAN, lead : BOOLEAN]

Blank(d) == IF d.tight THEN <<>> ELSE <<" ">>

\* the text of the directive d
Render(d) ==
    (IF d.lead THEN <<"X", " ">> ELSE <<>>)
      \o Ru(<<IF d.capital THEN "Stati" ELSE "stati", " ", "s_", " ", "poryadkom">>)
      \o Blank(d) \o (IF d.cmp = "gt" THEN <<">">> ELSE <<">", "=">>) \o Blank(d)
      \o d.n.text
      \o (IF d.cmp = "between"
          THEN Ru(<<" ", "i_", " ", "poryadkom">>) \o Blank(d) \o <<"<", "=">> \o Blank(d)
                 \o d.m.text
          ELSE <<>>)
      \o Ru(<<" ", "vniz", " ", "na">>) \o Blank(d) \o (IF d.plus THEN <<"+">> ELSE <<>>)
      \o d.k.text

\* the directives with their texts, written once: <<d, Render(d)>>
Rendered == {<<d, Render(d)>> : d \in Directives}

\* what the claim says the directive d is parsed as
Expected(d) ==
    CASE d.cmp = "gt" -> <<d.n.val + 1, 1000, d.k.val>>
      [] d.cmp = "ge" -> <<d.n.val, 1000, d.k.val>>
      [] d.cmp = "between" -> <<d.n.val, d.m.val, d.k.val>>

\* texts that hold none of the three patterns: no number after the comparison,
\* another comparison, no blank before "vniz", no shift, an upper bound
\* without a lower one, a token
NoDirectiveTexts ==
    {Ru(<<"stati", " ", "s_", " ", "poryadkom", " ", ">", " ", "vniz", " ", "na", " ", "2">>),
     Ru(<<"stati", " ", "s_", " ", "poryadkom", " ", "<", " ", "9", " ", "vniz", " ", "na",
       " ", "2">>),
     Ru(<<"stati", " ", "s_", " ", "poryadkom", " ", ">", " ", "9", "vniz", " ", "na", " ",
       "2">>),
     Ru(<<"stati", " ", "s_", " ", "poryadkom", " ", ">", "=", " ", "9", " ", "vniz", " ",
       "na">>),
     Ru(<<"stati", " ", "s_", " ", "poryadkom", " ", "<", "=", " ", "4", "0", " ", "vniz",
       " ", "na", " ", "2">>),
     Ru(<<"poryadkom", " ", ">", " ", "9", " ", "vniz", " ", "na", " ", "2">>),
     TokID1, Tok40}

ParseFileLists ==
    {<<File(<<Row(GoodDate, text, NaN, NaN)>>)>> :
        text \in {r[2] : r \in Rendered} \cup NoDirectiveTexts}

InitParse == InitWith(ParseFileLists)
SpecParse == InitParse /\ [][Next]_vars

\* the Renumber statements returned for row i, as (begin, end, shift)
RenumbersOfRow(i) ==
    {<<queries[k].begin_ord, queries[k].end_ord, queries[k].shift_ord>> :
        k \in {j \in StatementsOfRow(i) : queries[j].cat = "Renumber"}}

\* C8: "> N by M" is parsed as (N + 1, open end, M), ">= N by M" as
\* (N, open end, M) and ">= N and <= M by K", with or without "+" before K, as
\* (N, M, K); a text holding none of the patterns is no directive.  The row of
\* a directive is returned as the Renumber statement of what was parsed, the
\* row of another text as no Renumber statement.
C8_DirectiveParsedAsWritten ==
    file_no >= 1 =>
        /\ \A r \in Rendered :
              RowsRead[1].id = r[2] =>
                  /\ parse_renum_action(RowsRead[1].id) = Some(Expected(r[1]))
                  /\ Returned => RenumbersOfRow(1) = {Expected(r[1])}
        /\ RowsRead[1].id \in NoDirectiveTexts =>
              /\ parse_renum_action(RowsRead[1].id) = None
              /\ Returned => RenumbersOfRow(1) = {}

\* "X Stati s poryadkom>09 vniz na+15" was returned as the Renumber statement
\* (10, 1000, 15)
C8_Witness ==
    /\ Returned
    /\ RowsRead[1].id = Render([cmp |-> "gt", n |-> Num(<<"0", "9">>, 9),
                                m |-> Num(<<"4", "0">>, 40), k |-> Num(<<"1", "5">>, 15),
                                plus |-> TRUE, tight |-> TRUE, capital |-> TRUE,
                                lead |-> TRUE])
    /\ RenumbersOfRow(1) = {<<10, 1000, 15>>}

(***************************************************************************)
(* Allocation calls, checked under Spec.                                   *)
(***************************************************************************)
\* the call made an allocation call to the database (cursor.execute, line 98)
Allocates(ev) == ev.calls_after > ev.calls_before
\* the calls of the trace that made an allocation call for the token of call i
AllocationsFor(i) ==
    {j \in DOMAIN trace : /\ trace[j].file = trace[i].file
                          /\ IsTempCall(trace[j])
                          /\ Strip(trace[j].tok) = Strip(trace[i].tok)
                          /\ Allocates(trace[j])}

\* C11 (as the spec states it): in one run of process_file at most one
\* allocation call is made for one temporary token, however often the token is
\* resolved in the two passes, and also when an allocation call for it failed.
\* The code records nothing for a failed allocation: the next resolution of the
\* token makes another allocation call.
C11_OneAllocationPerToken ==
    \A i \in DOMAIN trace : IsTempCall(trace[i]) => Cardinality(AllocationsFor(i)) <= 1

(***************************************************************************)
(* Rows whose handling raises in pass 2, among rows that are handled: a    *)
(* change date that is text and no date (pd.to_datetime raises), a         *)
(* creation row without the attribute parent (attrs['parent'] raises       *)
(* KeyError) and the action "Menyaet" with nothing after it                *)
(* (action_text.split('menyaet ')[1] raises IndexError).                   *)
(***************************************************************************)
RowBadDate == Row(BadDate, Tok040, TextDeleteAction, NaN)
RowAddNoParent == Row(GoodDate, TokID1, TextAddAction, AttrText({KeyName, KeyOrd, KeyLvl}, Tok40))
RowChangesBare == Row(GoodDate, TokID2, Ru(<<"Menyaet">>), NaN)
RaisingRows == {RowBadDate, RowAddNoParent, RowChangesBare}
ErrorRows == RaisingRows \cup {RowRenumOpen, RowAddID1, RowLevelID2}

ErrorFileLists == {<<File(rows)>> : rows \in SeqsUpTo(ErrorRows, MaxRows)}
InitError == InitWith(ErrorFileLists)
SpecError == InitError /\ [][Next]_vars

\* the handling of row i raised in pass 2
HasRaised(i) == \E k \in DOMAIN errors : errors[k] = i
ErrorMarkers(i) ==
    {k \in DOMAIN queries : queries[k].cat = "comment" /\ queries[k].fn = "row_error"
                              /\ queries[k].row = i}
\* the IDs the token resolved to when row j was handled in pass 2
ResolvedInPass2(j, tok) ==
    {trace[k].ret[1] : k \in {n \in DOMAIN trace : /\ trace[n].file = file_no
                                                  /\ trace[n].pass = 2 /\ trace[n].row = j
                                                  /\ trace[n].tok = tok
                                                  /\ trace[n].ret # None}}
\* row j was handled as its kind of row is: a directive gave its Renumber
\* statement, the creation row of ID1 its Add statement and the level row of ID2
\* its level-set statement when the token resolved to an ID, and a row that
\* raises was caught for itself
HandledAsItsKind(j) ==
    /\ IsDirectiveRow(df[j]) =>
          /\ Cardinality(StatementsOfRow(j)) = 1
          /\ \A k \in StatementsOfRow(j) : queries[k].cat = "Renumber"
    /\ df[j] = RowAddID1 =>
          \A id \in ResolvedInPass2(j, TokID1) :
              /\ Cardinality(StatementsOfRow(j)) = 1
              /\ \A k \in StatementsOfRow(j) :
                    /\ queries[k].cat = "Add"
                    /\ queries[k].article_id = id
                    /\ queries[k].parent_id = Some(40)
    /\ df[j] = RowLevelID2 =>
          \A id \in ResolvedInPass2(j, TokID2) :
              /\ Cardinality(StatementsOfRow(j)) = 1
              /\ \A k \in StatementsOfRow(j) :
                    /\ queries[k].fn = "fn_balance_article_level_set"
                    /\ queries[k].article_id = id
    /\ df[j] \in {RowBadDate, RowAddNoParent} => HasRaised(j)
    /\ (generate_file /\ df[j].date = GoodDate) =>
          \E k \in DOMAIN comment_lines : comment_lines[k] = j

\* C12: an exception raised while a row is handled in pass 2 is caught for that
\* row: the loop goes on with the next row, every later dated row is handled as
\* its kind of row is, the call returns the Renumber statements, then the Add
\* statements, then the Change statements, and in script mode exactly one error
\* marker is returned for the failing row (none in execute mode).
C12_RowErrorCaughtPerRow ==
    /\ (pc = "pass2" /\ index <= Len(df)) => \A k \in DOMAIN errors : errors[k] < index
    /\ Returned =>
          /\ SelectSeq(queries, IsStatement) = renum_sql \o addition_sql \o change_sql
          /\ \A i \in DOMAIN df :
                HasRaised(i) =>
                    /\ Cardinality(ErrorMarkers(i)) = IF generate_file THEN 1 ELSE 0
                    /\ \A j \in (i + 1)..Len(df) : HandledAsItsKind(j)

\* a script was returned for a file whose first row has a date that is no date
\* and whose second row is a creation row without parent: each has its error
\* marker, and the third row, the creation row of ID1, its Add statement
C12_Witness ==
    /\ Returned /\ generate_file
    /\ df = <<RowBadDate, RowAddNoParent, RowAddID1>>
    /\ errors = <<1, 2>>
    /\ Cardinality(ErrorMarkers(1)) = 1 /\ Cardinality(ErrorMarkers(2)) = 1
    /\ ResolvedInPass2(3, TokID1) # {}
    /\ \E k \in StatementsOfRow(3) :
          queries[k].cat = "Add" /\ queries[k].article_id = generated_ids[TokID1]

(***************************************************************************)
(* Directive rows one after the other: the open-ended "> 9 by 2" (begin    *)
(* 10), the bounded ">= 30 and <= 40 by +5", the open-ended ">= 20 by 3",  *)
(* a directive row without a date and a row that is no directive.          *)
(***************************************************************************)
\* "stati s poryadkom >= 20 vniz na 3"
TextRenumFrom20 ==
    Ru(<<"stati", " ", "s_", " ", "poryadkom", " ", ">", "=", " ", "2", "0", " ", "vniz", " ",
      "na", " ", "3">>)
RowRenumFrom20 == Row(GoodDate, TextRenumFrom20, NaN, NaN)
RenumRows ==
    {RowRenumOpen, RowRenumBounded, RowRenumFrom20, Dateless(RowRenumBounded), RowDelete040}
RenumFileLists == {<<File(rows)>> : rows \in SeqsUpTo(RenumRows, MaxRows)}
InitRenum == InitWith(RenumFileLists)
SpecRenum == InitRenum /\ [][Next]_vars

\* the begin the directive of the row is written with
WrittenBegin(row) ==
    CASE row.id = TextRenumOpen -> 10 [] row.id = TextRenumBounded -> 30
      [] row.id = TextRenumFrom20 -> 20
IsWrittenDirective(row) ==
    row.date = GoodDate /\ row.id \in {TextRenumOpen, TextRenumBounded, TextRenumFrom20}
IsWrittenOpenEnded(row) ==
    row.date = GoodDate /\ row.id \in {TextRenumOpen, TextRenumFrom20}
\* the directive rows before row i
DirectivesBefore(i) == {j \in 1..(i - 1) : j \in DOMAIN df /\ IsWrittenDirective(df[j])}
\* the last of them
LastDirectiveBefore(i) ==
    CHOOSE j \in DirectivesBefore(i) : \A l \in DirectivesBefore(i) : l <= j
\* the begin pass 2 remembers when it comes to row i
RememberedBegin(i) ==
    IF DirectivesBefore(i) = {} THEN None
    ELSE Some(WrittenBegin(df[LastDirectiveBefore(i)]))

\* C13: when pass 2 comes to a row, previous_begin is the begin of the most
\* recent dated directive row before it, bounded or open-ended, and None when
\* there is none; an open-ended directive row is returned with the end
\* previous_begin - 1, and with the open end 1000 when no directive row is
\* before it.
C13_OpenEndClosedByRemembered ==
    /\ pc = "pass2" => previous_begin = RememberedBegin(index)
    /\ Returned =>
          \A i \in DOMAIN df :
              IsWrittenOpenEnded(df[i]) =>
                  RenumberEnds(i, IF RememberedBegin(i) = None THEN OpenEnd
                                  ELSE RememberedBegin(i)[1] - 1)

\* the open-ended directive with begin 10, the bounded one with begin 30 and
\* the open-ended one with begin 20 were returned with the ends 1000, 40 and 29
C13_Witness ==
    /\ Returned
    /\ df = <<RowRenumOpen, RowRenumBounded, RowRenumFrom20>>
    /\ RenumberEnds(1, OpenEnd) /\ RenumberEnds(2, 40) /\ RenumberEnds(3, 29)
    /\ previous_begin = Some(20)

(***************************************************************************)
(* Allocation calls and the passes, checked under Spec.                    *)
(***************************************************************************)
\* pass 2 has built a statement of the file
StatementBuilt == renum_sql # <<>> \/ addition_sql # <<>> \/ change_sql # <<>>

\* C14 (as the spec states it): all allocation happens in pass 1: once pass 2
\* has built its first statement no step makes an allocation call, whatever the
\* allocation calls of pass 1 returned.
\* The code resolves the tokens again in pass 2, and a token whose allocation
\* failed in pass 1 is allocated there.
C14_NoAllocationAfterFirstStatement ==
    [][ (pc = "pass2" /\ StatementBuilt) => db_calls' = db_calls ]_vars

(***************************************************************************)
(* Action texts with the phrases of several operations.  One row: the      *)
(* identifier column holds ID2 or a directive; the action text is absent,  *)
(* a text with no phrase, or any of the five phrases "Smenila nazvanie     *)
(* na", "Dobavlenie stati", "Logicheski udalyaem iz dokumenta", "Menyaet   *)
(* uroven i roditelya" and "Menyaet imya" joined by ", "; the attribute    *)
(* cell is absent or holds name, ord, lvl and parent.                      *)
(***************************************************************************)
TextRenameAction == Ru(<<"Smenila", " ", "nazvanie", " ", "na">>)
TextChangesName == Ru(<<"Menyaet", " ", "imya">>)
TextNoPhrase == <<"X">>
\* the phrases in the order the classification is stated in
PhraseTexts ==
    <<TextRenameAction, TextAddAction, TextDeleteAction, TextLevelAction, TextChangesName>>
\* the texts of the phrases numbered in P, joined by ", "
PhrasesText(P) == JoinItems(SelectSeq([k \in 1..5 |-> IF k \in P THEN PhraseTexts[k] ELSE <<>>], LAMBDA t : t # <<>>))
ClassifyActions == {PhrasesText(P) : P \in (SUBSET (1..5)) \ {{}}} \cup {NaN, TextNoPhrase}
ClassifyRows ==
    {Row(GoodDate, id, action, attr) :
        id \in {TokID2, TextRenumOpen}, action \in ClassifyActions,
        attr \in {NaN, AddAttrs(Tok40)}}
ClassifyFileLists == {<<File(<<r>>)>> : r \in ClassifyRows}
InitClassify == InitWith(ClassifyFileLists)
SpecClassify == InitClassify /\ [][Next]_vars

\* the action text of row i holds the phrase
HasPhrase(i, phrase) == notna(RowsRead[i].action) /\ Contains(Lower(RowsRead[i].action), phrase)
\* the procedures of the operation row i is classified as, by first match in
\* the stated order
FnsOfFirstMatch(i) ==
    IF RowsRead[i].id = TextRenumOpen THEN {"fn_balance_article_renum_up_down"}
    ELSE IF HasPhrase(i, PhraseRename) THEN {"fn_balance_article_rename"}
    ELSE IF HasPhrase(i, PhraseAdd) THEN {"fn_balance_article_add_1"}
    ELSE IF HasPhrase(i, PhraseDelete) THEN {"fn_balance_article_end_date_set"}
    ELSE IF HasPhrase(i, PhraseLevelAnd) THEN {"fn_balance_article_level_set"}
    ELSE IF HasPhrase(i, PhraseChanges)
         THEN {"fn_balance_article_rename", "fn_balance_article_ord_set",
               "fn_balance_article_level_set"}
    ELSE {}

\* C15 (as the spec states it): a dated row is classified as one operation, by
\* first match in the order directive, rename, add article, logical delete, set
\* level and parent, composite, else unrecognized: every statement returned for
\* the row is a statement of that operation, and a directive row is returned as
\* its one Renumber statement whatever its action text and attributes.
\* The code tests the add-article phrase apart from the chain of the other
\* phrases, and tests level-and-parent before logical delete.
C15_FirstMatchOnly ==
    Returned =>
        \A i \in DOMAIN df :
            /\ \A k \in StatementsOfRow(i) : queries[k].fn \in FnsOfFirstMatch(i)
            /\ RowsRead[i].id = TextRenumOpen => Cardinality(StatementsOfRow(i)) = 1

\* the script returned for the file holds the marker of an unknown action for
\* row i
HasUnknownMarker(i) ==
    \E k \in DOMAIN queries : queries[k].cat = "comment" /\ queries[k].fn = "unknown_action"
                                 /\ queries[k].row = i
\* the action text of row i is present and holds none of the known phrases
HasNoKnownPhrase(i) ==
    /\ notna(RowsRead[i].action)
    /\ \A phrase \in {PhraseRename, PhraseAdd, PhraseDelete, PhraseLevelAnd,
                      PhraseLevelComma, PhraseChanges} : ~HasPhrase(i, phrase)

\* C16 (as the spec states it): in a script the marker of an unknown action is
\* returned for a dated row that is no directive exactly when its action text is
\* present and holds none of the known phrases (rename, add article, logical
\* delete, level and parent, composite); a row with the marker has no statement.
\* The code tests the add-article phrase apart from the chain that ends in the
\* marker: a row whose only phrase is add article gets the marker and its Add
\* statement.
C16_UnknownMarkerIffNoPhrase ==
    (Returned /\ generate_file) =>
        \A i \in DOMAIN df :
            (RowsRead[i].date = GoodDate /\ RowsRead[i].id # TextRenumOpen) =>
                /\ HasUnknownMarker(i) <=> HasNoKnownPhrase(i)
                /\ HasUnknownMarker(i) => StatementsOfRow(i) = {}

(***************************************************************************)
(* Tokens that do not resolve.  One row: the article token is ID2, 40 or   *)
(* "XY" (neither digits nor a temporary token); the action is level and    *)
(* parent, the composite "Menyaet roditelya" or logical delete; the        *)
(* attributes are any of lvl and parent, the parent "XY", ID1 or 40.  A    *)
(* temporary token does not resolve when its allocation calls fail.        *)
(***************************************************************************)
TokXY == <<"X", "Y">>
TextChangesParent == CompositeText(NoAspect, NoAspect, ItemParent, FALSE)
UnresolvedRows ==
    {Row(GoodDate, id, action, AttrText(K, parent)) :
        id \in {TokID2, Tok40, TokXY},
        action \in {TextLevelAction, TextChangesParent, TextDeleteAction},
        K \in SUBSET {KeyLvl, KeyParent}, parent \in {TokXY, TokID1, Tok40}}
UnresolvedFileLists == {<<File(<<r>>)>> : r \in UnresolvedRows}
InitUnresolved == InitWith(UnresolvedFileLists)
SpecUnresolved == InitUnresolved /\ [][Next]_vars

\* a resolution of the token at row i in pass 2 returned None
UnresolvedInPass2(i, tok) ==
    \E k \in DOMAIN trace : /\ trace[k].file = file_no /\ trace[k].pass = 2
                            /\ trace[k].row = i /\ trace[k].tok = tok
                            /\ trace[k].ret = None
\* row i supplies a parent token and the token did not resolve
ParentUnresolved(i) ==
    /\ HasKey(AttrsRead(i), KeyParent)
    /\ AttrsRead(i)[KeyParent] # RowsRead[i].id
    /\ UnresolvedInPass2(i, AttrsRead(i)[KeyParent])

\* C17 (as the spec states it): when the parent token of a row does not resolve
\* (its shape is neither digits nor a temporary token, or its allocation
\* failed), no level/parent-set statement is returned for the row; when the
\* article token does not resolve, no statement is returned for the row.
\* The code emits the level/parent-set with the parent NULL whenever the row
\* has the attribute lvl.
C17_UnresolvedParentSkipped ==
    Returned =>
        \A i \in DOMAIN df :
            /\ ParentUnresolved(i) => CallsOfRow(i, "fn_balance_article_level_set") = {}
            /\ UnresolvedInPass2(i, RowsRead[i].id) => StatementsOfRow(i) = {}

(***************************************************************************)
(* One temporary token written in several ways: "ID1", "Id1" and " ID1 ",  *)
(* as the article of a delete row and as the parent of a level row.        *)
(***************************************************************************)
TokId1Mixed == <<"I", "d", "1">>
TokID1Spaced == <<" ", "I", "D", "1", " ">>
CaseTokens == {TokID1, TokId1Mixed, TokID1Spaced}
CaseRows ==
    {Row(GoodDate, tok, TextDeleteAction, NaN) : tok \in CaseTokens}
      \cup {Row(GoodDate, Tok40, TextLevelAction, LevelAttrs(tok)) : tok \in CaseTokens}
CaseFileLists == {<<File(rows)>> : rows \in SeqsUpTo(CaseRows, MaxRows)}
InitCase == InitWith(CaseFileLists)
SpecCase == InitCase /\ [][Next]_vars

\* the token trimmed and with its case normalized
Normalized(tok) == Upper(Strip(tok))
\* the calls of the file of call i that were given an ID for a token that is
\* the token of call i up to case and surrounding white space
SameNormalized(i) ==
    {j \in DOMAIN trace : /\ trace[j].file = trace[i].file
                          /\ IsTempCall(trace[j])
                          /\ Normalized(trace[j].tok) = Normalized(trace[i].tok)
                          /\ trace[j].ret # None}

\* C18 (as the spec states it): temporary tokens that differ only in letter
\* case or in surrounding white space ("ID1", "Id1", " ID1 ") resolve to the
\* same ID within a file, and one ID is allocated for them.
\* The code trims the token but keeps its case in the registry key.
C18_KeyTrimmedAndCaseNormalized ==
    \A i \in DOMAIN trace :
        IsTempCall(trace[i]) =>
            /\ \A j \in SameNormalized(i) : \A k \in SameNormalized(i) :
                  trace[j].ret = trace[k].ret
            /\ Cardinality({j \in SameNormalized(i) : Allocates(trace[j])}) <= 1

(***************************************************************************)
(* Rows with a blank identifier column.  One row: the identifier column is *)
(* NaN, white space or ID2; the action is rename, level and parent,        *)
(* logical delete, add article or absent; the attribute cell is absent, a  *)
(* name, lvl and parent, or name, ord, lvl and parent.                     *)
(***************************************************************************)
TextNewName == <<"N">>
BlankRows ==
    {Row(GoodDate, id, action, attr) :
        id \in BlankIds \cup {TokID2},
        action \in {TextRenameAction, TextLevelAction, TextDeleteAction, TextAddAction, NaN},
        attr \in {NaN, TextNewName, LevelAttrs(Tok40), AddAttrs(Tok40)}}
BlankFileLists ==
    {<<File(<<r>>)>> : r \in BlankRows} \cup {<<File(<<Dateless(r)>>)>> : r \in BlankRows}
InitBlank == InitWith(BlankFileLists)
SpecBlank == InitBlank /\ [][Next]_vars

\* row i was read with the shape of a creation: the add-article phrase, or no
\* action text and the attributes name, ord, lvl and parent
IsCreateShape(i) ==
    \/ HasPhrase(i, PhraseAdd)
    \/ isna(RowsRead[i].action) /\ \A key \in AddKeys : HasKey(AttrsRead(i), key)
\* pass 1 resolved a placeholder at row i
PlaceholderResolved(i) ==
    \E k \in DOMAIN trace : /\ trace[k].file = file_no /\ trace[k].pass = 1
                            /\ trace[k].row = i
                            /\ \E n \in 1..Len(df) : trace[k].tok = TempToken(n)

\* C19 (as the spec states it): pass 1 makes a placeholder, writes it into the
\* row and resolves it only for a dated row whose identifier column is blank
\* and that has the shape of a creation; the identifier column of every other
\* row is as it was read and no placeholder is resolved for it.
\* The code (version of 15.09) makes the placeholder for every dated row with a
\* blank identifier and an attribute cell, whatever its action.
C19_PlaceholderOnlyForCreation ==
    (file_no >= 1 /\ (pc = "pass2" \/ Returned)) =>
        \A i \in DOMAIN df :
            ~(RowsRead[i].date = GoodDate /\ IsBlankId(RowsRead[i].id) /\ IsCreateShape(i))
                => /\ df[i].id = RowsRead[i].id
                   /\ ~PlaceholderResolved(i)

(***************************************************************************)
(* All-digit tokens, zero among them.  One row: the article token is "0",  *)
(* "00", "7" or "40"; the row is a delete row, a rename row, a level row   *)
(* or a creation row, whose parent is "0" or "40".                         *)
(***************************************************************************)
Tok0 == <<"0">>
Tok00 == <<"0", "0">>
Tok7 == <<"7">>
DigitTokens == {Tok0, Tok00, Tok7, Tok40}
DigitParents == {Tok0, Tok40}
\* the number the token is written as
WrittenNumber(tok) ==
    CASE tok = Tok0 -> 0 [] tok = Tok00 -> 0 [] tok = Tok7 -> 7 [] tok = Tok40 -> 40
DigitRows ==
    {Row(GoodDate, id, TextDeleteAction, NaN) : id \in DigitTokens}
      \cup {Row(GoodDate, id, TextRenameAction, TextNewName) : id \in DigitTokens}
      \cup {Row(GoodDate, id, TextLevelAction, LevelAttrs(parent)) :
                id \in DigitTokens, parent \in DigitParents}
      \cup {Row(GoodDate, id, TextAddAction, AddAttrs(parent)) :
                id \in DigitTokens, parent \in DigitParents}
DigitFileLists == {<<File(<<r>>)>> : r \in DigitRows}
InitDigit == InitWith(DigitFileLists)
SpecDigit == InitDigit /\ [][Next]_vars

\* C20 (as the spec states it): an all-digit token is used as its own integer,
\* 0 included: a delete, rename, level or creation row whose article token is
\* all digits is returned as one statement with that integer as article ID, and
\* an all-digit parent token is returned as that integer, never as NULL.
\* The code tests the resolved IDs for truth: the article 0 gives no statement
\* and the parent 0 is written as NULL.
C20_DigitTokenUsedAsInteger ==
    Returned =>
        \A i \in DOMAIN df :
            RowsRead[i].id \in DigitTokens =>
                /\ Cardinality(StatementsOfRow(i)) = 1
                /\ \A k \in StatementsOfRow(i) :
                      /\ queries[k].article_id = WrittenNumber(RowsRead[i].id)
                      /\ \A parent \in DigitParents :
                            (HasKey(AttrsRead(i), KeyParent)
                               /\ AttrsRead(i)[KeyParent] = parent
                               /\ ~HasPhrase(i, PhraseRename))
                            => queries[k].parent_id = Some(WrittenNumber(parent))

(***************************************************************************)
(* Placeholders and written tokens.  Creation rows under the parent 40     *)
(* whose identifier column is blank or holds "TEMP_1", "TEMP_2" or "ID1".  *)
(***************************************************************************)
TempRows ==
    {Row(GoodDate, id, TextAddAction, AddAttrs(Tok40)) :
        id \in {NaN, TempToken(1), TempToken(2), TokID1}}
TempFileLists == {<<File(rows)>> : rows \in SeqsUpTo(TempRows, MaxRows)}
InitTemp == InitWith(TempFileLists)
SpecTemp == InitTemp /\ [][Next]_vars

\* rows i and j stand for two articles: they are two rows, and one of them was
\* read with a blank identifier or they were read with two tokens
TwoArticles(i, j) ==
    /\ i # j
    /\ \/ IsBlankId(RowsRead[i].id) \/ IsBlankId(RowsRead[j].id)
       \/ Strip(RowsRead[i].id) # Strip(RowsRead[j].id)

\* C21 (as the spec states it): a placeholder made in pass 1 is equal neither
\* to a token written in the file nor to another placeholder, and two creation
\* rows that stand for two articles are never returned with the same article
\* ID.
\* The code makes the placeholders TEMP_1, TEMP_2, ... without looking at the
\* tokens of the file: a row that is written with TEMP_1 and a row with a blank
\* identifier share one registry entry.
C21_PlaceholderIsFresh ==
    (file_no >= 1 /\ (pc = "pass2" \/ Returned)) =>
        \A i \in DOMAIN df : \A j \in DOMAIN df :
            TwoArticles(i, j) =>
                /\ IsBlankId(RowsRead[i].id) => df[i].id # df[j].id
                /\ Returned =>
                      \A k \in StatementsOfRow(i) : \A l \in StatementsOfRow(j) :
                          queries[k].article_id # queries[l].article_id

(***************************************************************************)
(* Bounded directives whose upper bound is, or is near, the number that    *)
(* stands for an open end: ">= 50 and <= M by 2" with M = 40, 999 and      *)
(* 1000, among the directives "> 9 by 2" and ">= 30 and <= 40 by +5".      *)
(***************************************************************************)
UpperBounds == {Num(<<"4", "0">>, 40), Num(<<"9", "9", "9">>, 999), Num(<<"1", "0", "0", "0">>, 1000)}
\* "stati s poryadkom >= 50 i poryadkom <= M vniz na 2"
TextBoundedTo(m) ==
    Render([cmp |-> "between", n |-> Num(<<"5", "0">>, 50), m |-> m,
            k |-> Num(<<"2">>, 2), plus |-> FALSE, tight |-> FALSE, capital |-> FALSE,
            lead |-> FALSE])
RowBoundedTo(m) == Row(GoodDate, TextBoundedTo(m), NaN, NaN)
SentinelRows == {RowBoundedTo(m) : m \in UpperBounds} \cup {RowRenumOpen, RowRenumBounded}
SentinelFileLists == {<<File(rows)>> : rows \in SeqsUpTo(SentinelRows, MaxRows)}
InitSentinel == InitWith(SentinelFileLists)
SpecSentinel == InitSentinel /\ [][Next]_vars

\* C22 (as the spec states it): a bounded directive ">= N and <= M by K" is
\* returned with its own upper bound M as end, for every M, 1000 included, and
\* wherever it stands among the directives of the file.
\* The code tells an open end from a written bound by the value 1000 alone: a
\* written bound of 1000 after another directive is replaced.
C22_BoundedKeepsItsEnd ==
    Returned =>
        \A i \in DOMAIN df : \A m \in UpperBounds :
            df[i] = RowBoundedTo(m) => RenumberEnds(i, m.val)

(***************************************************************************)
(* The block comment of a script, checked under Spec.                      *)
(***************************************************************************)
IsOpenComment(q) == q.cat = "comment" /\ q.fn = "open_comment"
IsCloseComment(q) == q.cat = "comment" /\ q.fn = "close_comment"
\* line k of the returned script lies in a block comment: a line that opens one
\* is before it and no line that closes one is between them
InBlockComment(k) ==
    \E o \in 1..(k - 1) :
        /\ IsOpenComment(queries[o])
        /\ \A c \in (o + 1)..(k - 1) : ~IsCloseComment(queries[c])

\* C23 (as the spec states it): in a returned script every line that opens a
\* block comment is followed by a line that closes it, and no Renumber, Add or
\* Change statement lies in a block comment.
\* The code opens the comment in the header, never writes the collected comment
\* lines, appends the statements and closes the comment after them.
C23_NoStatementInBlockComment ==
    (Returned /\ generate_file) =>
        /\ \A o \in DOMAIN queries :
              IsOpenComment(queries[o]) =>
                  \E c \in (o + 1)..Len(queries) : IsCloseComment(queries[c])
        /\ \A k \in Statements : ~InBlockComment(k)

(***************************************************************************)
(* Connections.  One or two files processed by one BalanceProcessor, each  *)
(* a file that is processed, a file whose only row raises, a file that     *)
(* cannot be read or a file for which the connection cannot be made.       *)
(***************************************************************************)
ConnFiles == {File(<<RowAddID1>>), File(<<RowBadDate>>), UnreadableFile, DbDownFile}
ConnFileLists == {<<f>> : f \in ConnFiles} \cup {<<f, g>> : f \in ConnFiles, g \in ConnFiles}
InitConn == InitWith(ConnFileLists)
SpecConn == InitConn /\ [][Next]_vars

\* C24 (as the spec states it): when process_file has returned, in either mode
\* and whatever happened (the file processed, not read, no connection made, a
\* row raising), the processor holds no open connection and none that it
\* opened is left open.
\* The code closes the connection in execute mode only.
C24_NoConnectionAfterReturn ==
    (pc \in {"main", "execute"} /\ file_no >= 1) => (conn = "None" /\ open_conns = 0)

====
